---- MODULE Spec2Model ----
(***************************************************************************)
(* popcornflix: the TMDb client, the two reconciling management commands   *)
(* (sync_genres, sync_popular_movies), the read-through proxy views and    *)
(* the favorites and watchlist views.                                      *)
(*                                                                         *)
(* Conventions.  A Python str is a sequence of one-character strings.  An  *)
(* optional value (a dict key that may be missing, a result that may be    *)
(* None) is a sequence of length 0 or 1: Absent, or Some(x).  A vendor     *)
(* dict is a record of optional fields plus the flag "other": whether the  *)
(* dict carries keys the program never reads.  A decimal is an integer in  *)
(* units of its last decimal place.  A str the program only compares or    *)
(* passes on (a sort key, a message) is a TLA+ string.                     *)
(***************************************************************************)
EXTENDS Integers, Sequences, FiniteSets, Bags, TLC

VARIABLES
    Movie,          \* rows of movies.Movie
    Genre,          \* rows of movies.Genre
    MovieGenre,     \* rows of movies.MovieGenre: a bag of <<movie, genre>>
    env,            \* os.environ: TMDB_BEARER_TOKEN, TMDB_API_KEY
    genres_data,    \* sync_genres: the fetched genre list
    genres_repeat,  \* sync_genres: this run fetched what the run before did
    genres_counts,  \* sync_genres: <<created_count, updated_count>>
    genres_stdout,  \* sync_genres: the closing line written to stdout
    pc,             \* sync_popular_movies: position in handle
    pages,          \* sync_popular_movies: options["pages"]
    page,           \* sync_popular_movies: the page loop variable
    movies,         \* sync_popular_movies: records of the page not yet read
    movie_data,     \* sync_popular_movies: the record of the movie loop
    created,        \* sync_popular_movies: outcome of the last record
    created_count,  \* sync_popular_movies
    updated_count,  \* sync_popular_movies
    stdout,         \* sync_popular_movies: what was written to stdout
    fetched,        \* sync_popular_movies: pages asked of the vendor, in order
    request,        \* proxy: the HTTP request a view is given
    response,       \* proxy: the Response the view returns
    remote,         \* proxy: the requests.get calls made for the request
    UserFavorite,   \* rows of users.UserFavorite
    UserWatchlist,  \* rows of users.UserWatchlist
    pk_seq,         \* the primary key sequences of the two tables
    user_request,   \* users: the HTTP request a view is given
    user_response,  \* users: the Response the view returns
    step,           \* movie loop, statement by statement: position in the body
    todo,           \* movie loop, statement by statement: genre ids to link
    at_start,       \* the tables as the record's iteration found them
    seen,           \* what a read of a local movie returned
    inflight,       \* create requests being served at the same time
    log,            \* the records the first of two runs was given
    run_no,         \* which of the two runs is under way
    after_first     \* the tables as the first of two runs left them

dbVars == <<Movie, Genre, MovieGenre>>
genreVars == <<genres_data, genres_repeat, genres_counts, genres_stdout>>
movieVars == <<pc, pages, page, movies, movie_data, created, created_count,
               updated_count, stdout, fetched>>
proxyVars == <<request, response, remote>>
userVars == <<UserFavorite, UserWatchlist, pk_seq, user_request, user_response>>
stepVars == <<step, todo, at_start, seen>>
raceVars == <<inflight>>
twiceVars == <<log, run_no, after_first>>
vars == <<Movie, Genre, MovieGenre, env, genres_data, genres_repeat,
          genres_counts, genres_stdout, pc, pages, page, movies, movie_data, created,
          created_count, updated_count, stdout, fetched, request, response,
          remote, UserFavorite, UserWatchlist, pk_seq, user_request,
          user_response, step, todo, at_start, seen, inflight, log, run_no,
          after_first>>

----------------------------------------------------------------------------
(* Bounds of the model. *)

MaxGenres == 2      \* longest genre list the vendor returns
MaxPages == 2       \* largest --pages option
MaxPerPage == 2     \* most records on one vendor page
MaxGenreIds == 3    \* longest genre_ids list of a movie record
MaxBatch == 3       \* records on the page of SpecRecords

GenreIds == {1, 2}
GenreNames == {<<"A">>, <<"B">>}
MovieIds == {1, 2}

----------------------------------------------------------------------------
(* Optional values and Python truthiness. *)

Absent == <<>>
Some(x) == <<x>>
Opt(S) == {Absent} \cup {Some(x) : x \in S}

\* dict.get(key, default)
Get(field, default) == IF field = Absent THEN default ELSE field[1]

\* All sequences over S of length at most n.
SeqUpTo(S, n) == UNION {[1..k -> S] : k \in 0..n}

Range(s) == {s[i] : i \in DOMAIN s}

----------------------------------------------------------------------------
(* Text conversions. *)

DigitChars == <<"0", "1", "2", "3", "4", "5", "6", "7", "8", "9">>

IsDigit(c) == \E i \in 1..10 : DigitChars[i] = c

DigitVal(c) == (CHOOSE i \in 1..10 : DigitChars[i] = c) - 1

RECURSIVE DigitsVal(_)
DigitsVal(s) ==
    IF s = <<>> THEN 0
    ELSE 10 * DigitsVal(SubSeq(s, 1, Len(s) - 1)) + DigitVal(s[Len(s)])

AllDigits(s) == \A i \in DOMAIN s : IsDigit(s[i])

IsLeap(y) == (y % 4 = 0 /\ y % 100 # 0) \/ y % 400 = 0

DaysIn(y, m) ==
    IF m = 2 THEN (IF IsLeap(y) THEN 29 ELSE 28)
    ELSE IF m \in {4, 6, 9, 11} THEN 30 ELSE 31

\* datetime.strptime(s, "%Y-%m-%d").date(): Some(<<y, m, d>>), or Absent for
\* the ValueError.  %Y is four digits; %m is 1[0-2]|0[1-9]|[1-9]; %d is
\* 3[0-1]|[1-2]\d|0[1-9]|[1-9]| [1-9]; the whole string must match.
ParseDate(s) ==
    LET Shape(ml, dl) ==
            /\ Len(s) = 6 + ml + dl
            /\ AllDigits(SubSeq(s, 1, 4))
            /\ s[5] = "-"
            /\ s[6 + ml] = "-"
        MonthOk(t) ==
            /\ AllDigits(t)
            /\ IF Len(t) = 2 THEN DigitsVal(t) \in 1..12 ELSE DigitsVal(t) \in 1..9
        DayTok(t) == IF Len(t) = 2 /\ t[1] = " " THEN SubSeq(t, 2, 2) ELSE t
        DayOk(t) ==
            /\ AllDigits(DayTok(t))
            /\ IF Len(DayTok(t)) = 2 THEN DigitsVal(DayTok(t)) \in 1..31
               ELSE DigitsVal(DayTok(t)) \in 1..9
        Fits(ml, dl) ==
            /\ Shape(ml, dl)
            /\ MonthOk(SubSeq(s, 6, 5 + ml))
            /\ DayOk(SubSeq(s, 7 + ml, 6 + ml + dl))
    IN  IF \E ml \in {1, 2}, dl \in {1, 2} : Fits(ml, dl)
        THEN LET ml == CHOOSE k \in {1, 2} : \E dl \in {1, 2} : Fits(k, dl)
                 y == DigitsVal(SubSeq(s, 1, 4))
                 m == DigitsVal(SubSeq(s, 6, 5 + ml))
                 d == DigitsVal(DayTok(SubSeq(s, 7 + ml, Len(s))))
             IN  IF y >= 1 /\ d <= DaysIn(y, m) THEN Some(<<y, m, d>>) ELSE Absent
        ELSE Absent

IsSpace(c) == c \in {" ", "\t", "\n"}

RECURSIVE LStrip(_)
LStrip(s) == IF s # <<>> /\ IsSpace(s[1]) THEN LStrip(Tail(s)) ELSE s

RECURSIVE RStrip(_)
RStrip(s) ==
    IF s # <<>> /\ IsSpace(s[Len(s)]) THEN RStrip(SubSeq(s, 1, Len(s) - 1)) ELSE s

\* str.strip()
Strip(s) == RStrip(LStrip(s))

\* A parse that reads text that is no number as 0.
IntOrZero(s) ==
    IF s # <<>> /\ AllDigits(s) THEN Some(DigitsVal(s)) ELSE Some(0)

\* int(s) of a str: Some(n), or Absent for the ValueError.  Surrounding
\* whitespace is dropped, one sign is allowed, and the digits may be grouped
\* by single underscores.
ParseInt(s) ==
    LET t == Strip(s)
        signed == t # <<>> /\ t[1] \in {"+", "-"}
        body == IF signed THEN Tail(t) ELSE t
        grouped ==
            /\ body # <<>>
            /\ IsDigit(body[1])
            /\ IsDigit(body[Len(body)])
            /\ \A i \in DOMAIN body :
                  \/ IsDigit(body[i])
                  \/ body[i] = "_" /\ IsDigit(body[i - 1]) /\ IsDigit(body[i + 1])
        n == DigitsVal(SelectSeq(body, IsDigit))
    IN  IF grouped THEN Some(IF signed /\ t[1] = "-" THEN 0 - n ELSE n) ELSE Absent

RECURSIVE NatToStr(_)
NatToStr(n) ==
    IF n < 10 THEN <<DigitChars[n + 1]>>
    ELSE NatToStr(n \div 10) \o <<DigitChars[(n % 10) + 1]>>

\* str(n) of an int
IntToStr(n) == IF n < 0 THEN <<"-">> \o NatToStr(0 - n) ELSE NatToStr(n)

\* s.split(sep)
RECURSIVE Split(_, _)
Split(s, sep) ==
    IF \E i \in DOMAIN s : s[i] = sep
    THEN LET i == CHOOSE k \in DOMAIN s :
                     s[k] = sep /\ \A j \in 1..(k - 1) : s[j] # sep
         IN  <<SubSeq(s, 1, i - 1)>> \o Split(SubSeq(s, i + 1, Len(s)), sep)
    ELSE <<s>>

\* sep.join(list)
RECURSIVE Join(_, _)
Join(list, sep) ==
    IF list = <<>> THEN <<>>
    ELSE IF Len(list) = 1 THEN list[1]
    ELSE list[1] \o <<sep>> \o Join(Tail(list), sep)

RECURSIVE DropZeros(_)
DropZeros(s) ==
    IF s # <<>> /\ s[Len(s)] = "0" THEN DropZeros(SubSeq(s, 1, Len(s) - 1)) ELSE s

LowerChars == [c \in {"I", "N", "F", "T", "Y", "A"} |->
                 CASE c = "I" -> "i" [] c = "N" -> "n" [] c = "F" -> "f"
                   [] c = "T" -> "t" [] c = "Y" -> "y" [] c = "A" -> "a"]

Lower(s) == [i \in DOMAIN s |-> IF s[i] \in DOMAIN LowerChars THEN LowerChars[s[i]] ELSE s[i]]

\* float(s) of a str written without exponent: Some(value), or Absent for
\* the ValueError.  A finite value is sign, digits and the number of those
\* digits that follow the point (trailing zeros dropped).
ParseFloat(s) ==
    LET t == Strip(s)
        signed == t # <<>> /\ t[1] \in {"+", "-"}
        neg == signed /\ t[1] = "-"
        body == IF signed THEN Tail(t) ELSE t
        parts == Split(body, ".")
        whole == parts[1]
        frac == IF Len(parts) = 2 THEN DropZeros(parts[2]) ELSE <<>>
        numeric ==
            /\ Len(parts) <= 2
            /\ AllDigits(whole)
            /\ Len(parts) = 2 => AllDigits(parts[2])
            /\ whole # <<>> \/ (Len(parts) = 2 /\ parts[2] # <<>>)
    IN  IF Lower(body) \in {<<"i", "n", "f">>, <<"i", "n", "f", "i", "n", "i", "t", "y">>}
        THEN Some([kind |-> "inf", neg |-> neg, digits |-> 0, scale |-> 0])
        ELSE IF Lower(body) = <<"n", "a", "n">>
        THEN Some([kind |-> "nan", neg |-> neg, digits |-> 0, scale |-> 0])
        ELSE IF numeric
        THEN Some([kind |-> "finite", neg |-> neg,
                   digits |-> DigitsVal(whole \o frac), scale |-> Len(frac)])
        ELSE Absent

----------------------------------------------------------------------------
(* The local store. *)

GenreRow(id, name) == [tmdb_id |-> id, name |-> name]

\* JSON null as the value of a dict key: Absent is a missing key, Some(x) a
\* value, JsonNull the value None.
JsonNull == <<"null", "null">>

\* dict.get(key, default) as a Python value: Absent for None.
GetValue(field, default) ==
    IF field = Absent THEN Some(default)
    ELSE IF field = JsonNull THEN Absent
    ELSE field

RECURSIVE Pow10(_)
Pow10(k) == IF k = 0 THEN 1 ELSE 10 * Pow10(k - 1)

Abs(n) == IF n < 0 THEN 0 - n ELSE n

RECURSIVE NumDigits(_)
NumDigits(n) == IF n < 10 THEN 1 ELSE 1 + NumDigits(n \div 10)

\* n / d rounded to an integer, ties to even (decimal.ROUND_HALF_EVEN).
RoundHalfEven(n, d) ==
    LET q == Abs(n) \div d
        r == Abs(n) % d
        up == 2 * r > d \/ (2 * r = d /\ q % 2 = 1)
        m == IF up THEN q + 1 ELSE q
    IN  IF n < 0 THEN 0 - m ELSE m

\* What a DecimalField(max_digits, decimal_places) stores for the float
\* n / 10^scale: to_python rounds it to max_digits significant digits, the
\* save quantizes that to decimal_places places, and a result of more than
\* max_digits digits is refused.  Some(stored value in units of
\* 10^-decimal_places), or Absent when refused.
DecimalColumn(n, scale, max_digits, decimal_places) ==
    LET drop == NumDigits(Abs(n)) - max_digits
        a == IF drop > 0 THEN RoundHalfEven(n, Pow10(drop)) * Pow10(drop) ELSE n
        b == IF scale >= decimal_places
             THEN RoundHalfEven(a, Pow10(scale - decimal_places))
             ELSE a * Pow10(decimal_places - scale)
    IN  IF NumDigits(Abs(b)) > max_digits THEN Absent ELSE Some(b)

\* Movie.vote_average and Movie.popularity; the vendor's floats are given in
\* thousandths (vote_average) and in ten-thousandths (popularity).
VoteAverageColumn(n) == DecimalColumn(n, 3, 3, 1)
PopularityColumn(n) == DecimalColumn(n, 4, 10, 3)

\* The fields of Movie that may not be NULL.
NotNullFields ==
    {"title", "original_title", "overview", "vote_count", "poster_path",
     "backdrop_path", "adult", "video", "original_language"}

\* The primary key the table gives its next row.
NextPk(rows) ==
    IF rows = {} THEN 1
    ELSE 1 + (CHOOSE n \in {x.id : x \in rows} : \A x \in rows : x.id <= n)

\* A Movie row: its primary key, the remote id and the defaults as the
\* columns store them (vote_average in tenths, popularity in thousandths).
MovieRow(pk, id, defaults) ==
    [id |-> pk,
     tmdb_id |-> id,
     title |-> defaults.title[1],
     original_title |-> defaults.original_title[1],
     overview |-> defaults.overview[1],
     release_date |-> defaults.release_date,
     vote_average |-> IF defaults.vote_average = Absent THEN Absent
                      ELSE VoteAverageColumn(defaults.vote_average[1]),
     vote_count |-> defaults.vote_count[1],
     popularity |-> IF defaults.popularity = Absent THEN Absent
                    ELSE PopularityColumn(defaults.popularity[1]),
     poster_path |-> defaults.poster_path[1],
     backdrop_path |-> defaults.backdrop_path[1],
     adult |-> defaults.adult[1],
     video |-> defaults.video[1],
     original_language |-> defaults.original_language[1]]

\* A lookup that finds nothing.
NoRowFound(rows, id) == FALSE

\* filter(tmdb_id=id).exists() of the lookups by remote id.
HasRow(rows, id) == \E x \in rows : x.tmdb_id = id

RowOf(rows, id) == CHOOSE x \in rows : x.tmdb_id = id

\* A sync that inserts without looking the row up first.
GenreAlwaysCreate(rows, id, name) ==
    [rows |-> rows \cup {GenreRow(id, name)}, created |-> TRUE]

\* Genre.objects.update_or_create(tmdb_id=id, defaults={"name": name})
GenreUpdateOrCreate(rows, id, name) ==
    IF HasRow(rows, id)
    THEN [rows |-> {x \in rows : x.tmdb_id # id} \cup {GenreRow(id, name)},
          created |-> FALSE]
    ELSE [rows |-> rows \cup {GenreRow(id, name)}, created |-> TRUE]

\* MovieGenre.objects.filter(movie=m): the genres m is linked to.
LinkedGenres(links, m) == {g \in GenreIds : CopiesIn(<<m, g>>, links) > 0}

\* MovieGenre.objects.filter(movie=m).delete()
DeleteLinks(links, m) ==
    LET keep == {p \in BagToSet(links) : p[1] # m}
    IN  [p \in keep |-> links[p]]

----------------------------------------------------------------------------
(* sync_genres *)

\* The vendor's genre records: the well-formed ones, one without "id" and
\* one without "name".
GenreRecords ==
    [id : {Some(g) : g \in GenreIds}, name : {Some(n) : n \in GenreNames}]
        \cup {[id |-> Absent, name |-> Some(<<"A">>)],
              [id |-> Some(1), name |-> Absent]}

\* The decoded bodies: {}, a dict without "genres", a dict with a genre list.
GenreBodies ==
    {[genres |-> Absent, other |-> FALSE], [genres |-> Absent, other |-> TRUE]}
        \cup {[genres |-> Some(l), other |-> FALSE] :
                l \in SeqUpTo(GenreRecords, MaxGenres)}

\* What TMDbService.get_genres can hand back: None, or the decoded body.
GenreResults == Opt(GenreBodies)

\* A test for None alone ("genres_data is None").
GenresDataIsNone(result) == result = Absent

\* "not genres_data": None or the empty dict.
NoGenresData(result) ==
    result = Absent \/ (result[1].genres = Absent /\ ~result[1].other)

\* The loop over genres: the rows, the two counts and whether the loop ran to
\* its end (genre_data['id'] or genre_data['name'] raises KeyError otherwise).
RECURSIVE UpsertGenres(_, _, _)
UpsertGenres(rows, list, counts) ==
    IF list = <<>> THEN [rows |-> rows, counts |-> counts, ok |-> TRUE]
    ELSE LET genre_data == Head(list) IN
         IF genre_data.id = Absent \/ genre_data.name = Absent
         THEN [rows |-> rows, counts |-> counts, ok |-> FALSE]
         ELSE LET got == GenreUpdateOrCreate(rows, genre_data.id[1], genre_data.name[1])
              IN  UpsertGenres(got.rows, Tail(list),
                               IF got.created THEN <<counts[1] + 1, counts[2]>>
                               ELSE <<counts[1], counts[2] + 1>>)

\* The truth value of an environment variable read with os.getenv.
IsSet(v) == v # Absent /\ v[1] # ""

\* A constructor that takes a variable that is set, empty or not.
AnyVariablePresent == env.bearer_token # Absent \/ env.api_key # Absent

\* TMDbService.__init__ does not raise: "not self.bearer_token and not
\* self.api_key" is false.
Configured == IsSet(env.bearer_token) \/ IsSet(env.api_key)

\* Command.handle of sync_genres, start to end, the vendor handing back one
\* of results.
SyncGenresOf(results) ==
    /\ \E result \in results :
         IF ~Configured
         THEN /\ genres_stdout' = "Error syncing genres"
              /\ UNCHANGED <<Genre, genres_data, genres_repeat, genres_counts>>
         ELSE /\ genres_data' = result
              /\ genres_repeat' = (result = genres_data)
              /\ IF NoGenresData(result)
                 THEN /\ genres_stdout' = "Failed to fetch genres from TMDb API"
                      /\ UNCHANGED <<Genre, genres_counts>>
                 ELSE LET run == UpsertGenres(Genre, Get(result[1].genres, <<>>),
                                              <<0, 0>>)
                      IN  /\ Genre' = run.rows
                          /\ genres_counts' = run.counts
                          /\ genres_stdout' =
                                IF run.ok THEN "Successfully synced genres"
                                ELSE "Error syncing genres"
    /\ UNCHANGED <<Movie, MovieGenre, env>>
    /\ UNCHANGED movieVars
    /\ UNCHANGED proxyVars
    /\ UNCHANGED userVars
    /\ UNCHANGED stepVars
    /\ UNCHANGED raceVars
    /\ UNCHANGED twiceVars

SyncGenres == SyncGenresOf(GenreResults)

\* No proxy request is being served.
NoRequest ==
    /\ request = Absent
    /\ response = Absent
    /\ remote = <<>>

\* No favorite or watchlist row yet, and no request to the users views.
NoUserRows ==
    /\ UserFavorite = {}
    /\ UserWatchlist = {}
    /\ pk_seq = [favorite |-> 0, watchlist |-> 0]
    /\ user_request = <<>>
    /\ user_response = <<>>

\* The movie loop is not followed statement by statement and nothing reads
\* the local movies.
NoSteps ==
    /\ step = "record"
    /\ todo = <<>>
    /\ at_start = <<>>
    /\ seen = <<>>

\* No two requests are served at once.
NoRace == inflight = <<>>

\* No run is repeated.
NoSecondRun ==
    /\ log = <<>>
    /\ run_no = 1
    /\ after_first = <<>>

NoAuxiliary == NoSteps /\ NoRace /\ NoSecondRun

InitGenreCommand ==
    /\ genres_data = Absent
    /\ genres_repeat = FALSE
    /\ genres_counts = <<0, 0>>
    /\ genres_stdout = ""

InitMovieCommand ==
    /\ pc = "idle"
    /\ pages = 0
    /\ page = 0
    /\ movies = 0
    /\ movie_data = Absent
    /\ created = FALSE
    /\ created_count = 0
    /\ updated_count = 0
    /\ stdout = [failed |-> {}, errors |-> 0, last |-> <<>>, final |-> ""]
    /\ fetched = <<>>

InitGenres ==
    /\ Movie = {}
    /\ Genre = {}
    /\ MovieGenre = EmptyBag
    /\ env = [bearer_token |-> Some("token"), api_key |-> Absent]
    /\ InitGenreCommand
    /\ NoRequest
    /\ NoUserRows
    /\ NoAuxiliary
    /\ InitMovieCommand

NextGenres == SyncGenres

SpecGenres == InitGenres /\ [][NextGenres]_vars

----------------------------------------------------------------------------
(* sync_popular_movies *)

EmptyStr == <<>>
NotADate == <<"n", "o", "t", "-", "a", "-", "d", "a", "t", "e">>
Feb29NoLeap == <<"2", "0", "2", "1", "-", "0", "2", "-", "2", "9">>
Unpadded == <<"2", "0", "2", "0", "-", "1", "-", "5">>
Padded == <<"2", "0", "2", "0", "-", "0", "1", "-", "0", "5">>

DateStrings == {EmptyStr, NotADate, Feb29NoLeap, Unpadded, Padded}

\* strptime over the strings of the model, computed once.
Strptime == [s \in DateStrings |-> ParseDate(s)]

\* vote_average values of the vendor, in thousandths: 7.5 and 100.0
VoteAverages == {7500, 100000}

\* The other scalar fields of a plain vendor record.
PlainScalars ==
    [title |-> Some(<<"T">>), original_title |-> Some(<<"O">>),
     overview |-> Some(<<"W">>), vote_count |-> Some(10),
     popularity |-> Some(267850), poster_path |-> Some(<<"/", "p">>),
     backdrop_path |-> Some(<<"/", "b">>), adult |-> Some(FALSE),
     video |-> Some(FALSE), original_language |-> Some(<<"e", "n">>)]

AllMovieRecords ==
    {r @@ PlainScalars :
        r \in [id : Opt(MovieIds), release_date : Opt(DateStrings),
               vote_average : Opt(VoteAverages),
               genre_ids : Opt(SeqUpTo(GenreIds, MaxGenreIds))]}

\* The number of fields in which r departs from the plain record: a padded
\* date, a rating of 7.5, no genre_ids.
Departures(r) ==
    Cardinality({f \in {"release_date", "vote_average", "genre_ids"} :
                    r[f] # (CASE f = "release_date" -> Some(Padded)
                              [] f = "vote_average" -> Some(7500)
                              [] f = "genre_ids" -> Absent)})

\* The records a vendor page is drawn from: a record with an id departs from
\* the plain record in at most one field, a record without an id in none.
MovieRecords ==
    {r \in AllMovieRecords :
        Departures(r) <= (IF r.id = Absent THEN 0 ELSE 1)}

\* The records of the runs over several pages: plain ones, and one of each
\* kind the movie loop fails on (no id, a rating the column rejects, a
\* genre id given twice).
RunRecords ==
    {r \in MovieRecords :
        /\ r.release_date = Some(Padded)
        /\ r.vote_average # Absent
        /\ r.genre_ids \in {Absent, Some(<<1, 1>>)}}

\* The plain record of movie id.
PlainRecord(id) ==
    [id |-> Some(id), release_date |-> Some(Padded),
     vote_average |-> Some(7500), genre_ids |-> Absent,
     title |-> Some(<<"T">>), original_title |-> Some(<<"O">>),
     overview |-> Some(<<"W">>), vote_count |-> Some(10),
     popularity |-> Some(267850), poster_path |-> Some(<<"/", "p">>),
     backdrop_path |-> Some(<<"/", "b">>), adult |-> Some(FALSE),
     video |-> Some(FALSE), original_language |-> Some(<<"e", "n">>)]

\* The records the scalar fields are read from: the plain record of one
\* movie with one scalar field missing, null or of another value (a rating of
\* 7.456, 50.0 or 100.0, a popularity of 26.7849), and the record without an
\* id.
FieldRecords ==
    LET p == PlainRecord(1)
        NoValue == {Absent, JsonNull}
    IN  {p, [p EXCEPT !.id = Absent]}
        \cup {[p EXCEPT !.title = v] : v \in NoValue \cup {Some(<<"U">>)}}
        \cup {[p EXCEPT !.original_title = v] : v \in NoValue}
        \cup {[p EXCEPT !.overview = v] : v \in NoValue}
        \cup {[p EXCEPT !.release_date = v] : v \in NoValue \cup {Some(EmptyStr)}}
        \cup {[p EXCEPT !.vote_average = v] :
                 v \in NoValue \cup {Some(7456), Some(50000), Some(100000)}}
        \cup {[p EXCEPT !.vote_count = v] : v \in NoValue \cup {Some(12)}}
        \cup {[p EXCEPT !.popularity = v] : v \in NoValue \cup {Some(267849)}}
        \cup {[p EXCEPT !.poster_path = v] : v \in NoValue \cup {Some(<<"/", "q">>)}}
        \cup {[p EXCEPT !.backdrop_path = v] : v \in NoValue}
        \cup {[p EXCEPT !.adult = v] : v \in NoValue \cup {Some(TRUE)}}
        \cup {[p EXCEPT !.video = v] : v \in NoValue \cup {Some(TRUE)}}
        \cup {[p EXCEPT !.original_language = v] : v \in NoValue}

\* What TMDbService.get_popular_movies can hand back: None, or the decoded
\* body; "results" holds the number of records, each read when the movie loop
\* reaches it.
PageBodies ==
    {[results |-> Absent, other |-> FALSE], [results |-> Absent, other |-> TRUE]}
        \cup {[results |-> Some(n), other |-> FALSE] : n \in 0..MaxPerPage}

PageResults == Opt(PageBodies)

\* "not movies_data": None or the empty dict.
NoMoviesData(result) ==
    result = Absent \/ (result[1].results = Absent /\ ~result[1].other)

\* The date block without its inner try/except: the ValueError of strptime
\* leaves the block.
ReleaseDateUncaught(r) ==
    LET parse == /\ r.release_date \notin {Absent, JsonNull}
                 /\ r.release_date[1] # EmptyStr
    IN  [value |-> IF parse THEN Strptime[r.release_date[1]] ELSE Absent,
         exc |-> IF parse /\ Strptime[r.release_date[1]] = Absent
                 THEN "ValueError" ELSE ""]

\* Lines 49-56: the release date to store, None (Absent) when the value is
\* missing, empty or refused by strptime; exc names an exception that leaves
\* the block, "" when none does.
ReleaseDate(r) ==
    [value |-> IF /\ r.release_date \notin {Absent, JsonNull}
                  /\ r.release_date[1] # EmptyStr
               THEN Strptime[r.release_date[1]]
               ELSE Absent,
     exc |-> ""]

\* DecimalField(max_digits=3, decimal_places=1): what the column can hold.
DecimalFits(v) == v = Absent \/ VoteAverageColumn(v[1]) # Absent

\* Lines 61-76: the defaults of update_or_create as Python values, Absent
\* for None.
Defaults(r, release_date) ==
    [title |-> GetValue(r.title, <<>>),
     original_title |-> GetValue(r.original_title, <<>>),
     overview |-> GetValue(r.overview, <<>>),
     release_date |-> release_date,
     vote_average |-> IF r.vote_average = JsonNull THEN Absent
                      ELSE r.vote_average,
     vote_count |-> GetValue(r.vote_count, 0),
     popularity |-> IF r.popularity = JsonNull THEN Absent ELSE r.popularity,
     poster_path |-> GetValue(r.poster_path, <<>>),
     backdrop_path |-> GetValue(r.backdrop_path, <<>>),
     adult |-> GetValue(r.adult, FALSE),
     video |-> GetValue(r.video, FALSE),
     original_language |-> GetValue(r.original_language, <<>>)]

\* ForeignKey(Movie, on_delete=models.CASCADE) of UserFavorite and
\* UserWatchlist: the rows whose movie is still in the Movie table.
Cascade(rows, movieRows) == {x \in rows : \E m \in movieRows : m.id = x.movie}

\* An upsert that deletes the row it finds and inserts a new one.
MovieDeleteAndCreate(rows, id, defaults) ==
    IF \/ ~DecimalFits(defaults.vote_average)
       \/ /\ defaults.popularity # Absent
          /\ PopularityColumn(defaults.popularity[1]) = Absent
    THEN [rows |-> rows, created |-> Absent, exc |-> "InvalidOperation"]
    ELSE IF \E f \in NotNullFields : defaults[f] = Absent
    THEN [rows |-> rows, created |-> Absent, exc |-> "IntegrityError"]
    ELSE [rows |-> {x \in rows : x.tmdb_id # id}
                      \cup {MovieRow(NextPk(rows), id, defaults)},
          created |-> Some(~HasRow(rows, id)), exc |-> ""]

\* Movie.objects.update_or_create(tmdb_id=id, defaults={...}); exc names the
\* exception the save raises, "" when it raises none: a decimal the column
\* cannot hold, None for a column that is NOT NULL.
MovieUpdateOrCreate(rows, id, defaults) ==
    IF \/ ~DecimalFits(defaults.vote_average)
       \/ /\ defaults.popularity # Absent
          /\ PopularityColumn(defaults.popularity[1]) = Absent
    THEN [rows |-> rows, created |-> Absent, exc |-> "InvalidOperation"]
    ELSE IF \E f \in NotNullFields : defaults[f] = Absent
    THEN [rows |-> rows, created |-> Absent, exc |-> "IntegrityError"]
    ELSE IF HasRow(rows, id)
    THEN [rows |-> {x \in rows : x.tmdb_id # id}
                      \cup {MovieRow(RowOf(rows, id).id, id, defaults)},
          created |-> Some(FALSE), exc |-> ""]
    ELSE [rows |-> rows \cup {MovieRow(NextPk(rows), id, defaults)},
          created |-> Some(TRUE), exc |-> ""]

\* A link table without its unique_together.
MovieGenreCreateUnchecked(links, m, g) ==
    [links |-> links (+) SetToBag({<<m, g>>}), exc |-> ""]

\* MovieGenre.objects.create(movie=m, genre=g) under unique_together.
MovieGenreCreate(links, m, g) ==
    IF CopiesIn(<<m, g>>, links) > 0
    THEN [links |-> links, exc |-> "IntegrityError"]
    ELSE [links |-> links (+) SetToBag({<<m, g>>}), exc |-> ""]

\* Lines 85-95: the loop over genre_ids.
RECURSIVE AddGenres(_, _, _, _, _)
AddGenres(links, genres, m, ids, lines) ==
    IF ids = <<>> THEN [links |-> links, lines |-> lines, exc |-> ""]
    ELSE IF ~HasRow(genres, Head(ids))
    THEN AddGenres(links, genres, m, Tail(ids), Append(lines, "Genre not found"))
    ELSE LET made == MovieGenreCreate(links, m, Head(ids))
         IN  IF made.exc # ""
             THEN [links |-> links, lines |-> lines, exc |-> made.exc]
             ELSE AddGenres(made.links, genres, m, Tail(ids), lines)

\* Lines 80-95: "Handle genres".
HandleGenres(links, genres, m, r) ==
    IF r.genre_ids # Absent /\ r.genre_ids[1] # <<>>
    THEN AddGenres(DeleteLinks(links, m), genres, m, r.genre_ids[1], <<>>)
    ELSE [links |-> links, lines |-> <<>>, exc |-> ""]

\* Lines 47-103: the body of the movie loop for record r, up to the first
\* exception.
MovieIteration(r, movieRows, genreRows, links) ==
    LET date == ReleaseDate(r)
        Raised(e) == [Movie |-> movieRows, MovieGenre |-> links,
                      created |-> Absent, lines |-> <<>>, exc |-> e]
    IN  IF date.exc # "" THEN Raised(date.exc)
        ELSE IF r.id = Absent THEN Raised("KeyError")
        ELSE LET up == MovieUpdateOrCreate(movieRows, r.id[1],
                                           Defaults(r, date.value))
             IN  IF up.exc # "" THEN Raised(up.exc)
                 ELSE LET hg == HandleGenres(links, genreRows, r.id[1], r)
                      IN  [Movie |-> up.rows, MovieGenre |-> hg.links,
                           created |-> up.created, lines |-> hg.lines,
                           exc |-> hg.exc]

\* A failed page that ends the page loop ("break" for "continue").
BreakOnFailedFetch == "done"

\* Lines 38-42: where the command goes after a page that could not be
\* fetched ("continue": back to the page loop).
AfterFailedFetch == "pages"

\* A record's exception that is not caught in the movie loop and ends the run.
StopOnRecordError(left) == "done"

\* Lines 104-110: where the command goes after a record raised: on with the
\* movie loop, or back to the page loop when the page is read.
AfterRecordError(left) == IF left > 0 THEN "movies" ELSE "pages"

NewStdout == [failed |-> {}, errors |-> 0, last |-> <<>>, final |-> ""]

\* Lines 25-32: the command starts.
StartSync ==
    /\ pc = "idle"
    /\ \E n \in 0..MaxPages :
         /\ pages' = n
         /\ IF Configured
            THEN /\ pc' = "pages"
                 /\ stdout' = NewStdout
            ELSE /\ pc' = "done"
                 /\ stdout' = [NewStdout EXCEPT !.final = "Error syncing movies"]
    /\ UNCHANGED <<page, movies, movie_data, created, created_count,
                   updated_count, fetched>>
    /\ UNCHANGED <<Movie, Genre, MovieGenre, env>>
    /\ UNCHANGED genreVars
    /\ UNCHANGED proxyVars
    /\ UNCHANGED userVars
    /\ UNCHANGED stepVars
    /\ UNCHANGED raceVars
    /\ UNCHANGED twiceVars

\* Lines 34-44: the page loop takes its next page and fetches it.
FetchPage ==
    /\ pc = "pages"
    /\ page < pages
    /\ page' = page + 1
    /\ fetched' = Append(fetched, page + 1)
    /\ \E result \in PageResults :
         IF NoMoviesData(result)
         THEN /\ stdout' = [stdout EXCEPT !.failed = @ \cup {page + 1}]
              /\ pc' = AfterFailedFetch
              /\ UNCHANGED movies
         ELSE /\ movies' = Get(result[1].results, 0)
              /\ pc' = IF movies' > 0 THEN "movies" ELSE "pages"
              /\ UNCHANGED stdout
    /\ UNCHANGED <<pages, movie_data, created, created_count, updated_count>>
    /\ UNCHANGED <<Movie, Genre, MovieGenre, env>>
    /\ UNCHANGED genreVars
    /\ UNCHANGED proxyVars
    /\ UNCHANGED userVars
    /\ UNCHANGED stepVars
    /\ UNCHANGED raceVars
    /\ UNCHANGED twiceVars

\* Lines 46-110: the movie loop reads its next record, one of R, and
\* processes it.
MovieLoopStep(R) ==
    /\ pc = "movies"
    /\ movies > 0
    /\ \E r \in R : \E it \in {MovieIteration(r, Movie, Genre, MovieGenre)} :
         LET counted == it.exc = ""
         IN  /\ movie_data' = Some(r)
             /\ Movie' = it.Movie
             /\ MovieGenre' = it.MovieGenre
             /\ created' = Get(it.created, created)
             /\ created_count' =
                   IF counted /\ created' THEN created_count + 1 ELSE created_count
             /\ updated_count' =
                   IF counted /\ ~created' THEN updated_count + 1 ELSE updated_count
             /\ stdout' =
                   [stdout EXCEPT
                      !.errors = IF counted THEN @ ELSE @ + 1,
                      !.last = Append(it.lines,
                                 IF ~counted THEN it.exc
                                 ELSE IF created' THEN "Created movie"
                                 ELSE "Updated movie")]
             /\ pc' = IF counted
                      THEN (IF movies - 1 > 0 THEN "movies" ELSE "pages")
                      ELSE AfterRecordError(movies - 1)
    /\ movies' = movies - 1
    /\ UserFavorite' = Cascade(UserFavorite, Movie')
    /\ UserWatchlist' = Cascade(UserWatchlist, Movie')
    /\ UNCHANGED <<pages, page, fetched, Genre, env>>
    /\ UNCHANGED genreVars
    /\ UNCHANGED proxyVars
    /\ UNCHANGED <<pk_seq, user_request, user_response>>
    /\ UNCHANGED stepVars
    /\ UNCHANGED raceVars

MovieLoop(R) == MovieLoopStep(R) /\ UNCHANGED twiceVars

ProcessMovie == MovieLoop(RunRecords)

ProcessRecord == MovieLoop(MovieRecords)

ProcessFields == MovieLoop(FieldRecords)

\* Lines 112-117: the page loop is over; the closing report.
FinishSync ==
    /\ pc = "pages"
    /\ page >= pages
    /\ pc' = "done"
    /\ stdout' = [stdout EXCEPT !.final = "Successfully synced movies"]
    /\ UNCHANGED <<pages, page, movies, movie_data, created, created_count,
                   updated_count, fetched>>
    /\ UNCHANGED <<Movie, Genre, MovieGenre, env>>
    /\ UNCHANGED genreVars
    /\ UNCHANGED proxyVars
    /\ UNCHANGED userVars
    /\ UNCHANGED stepVars
    /\ UNCHANGED raceVars
    /\ UNCHANGED twiceVars

\* The Genre tables sync_genres leaves behind (the names do not matter to
\* the movie sync).
GenreTables == {{GenreRow(g, <<"A">>) : g \in S} : S \in SUBSET GenreIds}

InitStore ==
    /\ Movie = {}
    /\ Genre \in GenreTables
    /\ MovieGenre = EmptyBag
    /\ env = [bearer_token |-> Some("token"), api_key |-> Absent]

\* The runs of sync_popular_movies over pages of RunRecords, after a
\* sync_genres that stored every genre.
Init ==
    /\ InitStore
    /\ Genre = {GenreRow(g, <<"A">>) : g \in GenreIds}
    /\ InitGenreCommand
    /\ NoRequest
    /\ NoUserRows
    /\ NoAuxiliary
    /\ InitMovieCommand

Next == StartSync \/ FetchPage \/ ProcessMovie \/ FinishSync

Spec == Init /\ [][Next]_vars

\* The command runs alone and each of its steps returns.
FairSpec == Spec /\ WF_vars(Next)

\* One page of MaxBatch records of MovieRecords: the run has fetched its only
\* page and is about to read the first record.
InitRecords ==
    /\ InitStore
    /\ InitGenreCommand
    /\ NoRequest
    /\ NoUserRows
    /\ NoAuxiliary
    /\ pc = "movies"
    /\ pages = 1
    /\ page = 1
    /\ movies = MaxBatch
    /\ movie_data = Absent
    /\ created = FALSE
    /\ created_count = 0
    /\ updated_count = 0
    /\ stdout = NewStdout
    /\ fetched = <<1>>

NextRecords == ProcessRecord \/ FinishSync

SpecRecords == InitRecords /\ [][NextRecords]_vars

\* The records and genre lists of the repeated runs: the plain record of
\* movie 2 and the same with a rating the column refuses, movie 1 with a
\* genre and with a genre id twice; a failed genre fetch, the two
\* genres, and a genre id twice, its second record without a name.
SyncRecords ==
    {PlainRecord(2),
     [PlainRecord(1) EXCEPT !.genre_ids = Some(<<2>>)],
     [PlainRecord(1) EXCEPT !.genre_ids = Some(<<1, 1>>)],
     [PlainRecord(2) EXCEPT !.vote_average = Some(100000)]}

SyncGenreResults ==
    {Absent,
     Some([genres |-> Some(<<[id |-> Some(1), name |-> Some(<<"A">>)],
                             [id |-> Some(2), name |-> Some(<<"A">>)]>>),
           other |-> FALSE]),
     Some([genres |-> Some(<<[id |-> Some(1), name |-> Some(<<"B">>)],
                             [id |-> Some(1), name |-> Absent]>>),
           other |-> FALSE])}

ProcessSyncs == MovieLoop(SyncRecords)

SyncSomeGenres == SyncGenresOf(SyncGenreResults)

\* The command has ended and is invoked again.
RunAgain ==
    /\ pc = "done"
    /\ pc' = "idle"
    /\ pages' = 0
    /\ page' = 0
    /\ movies' = 0
    /\ movie_data' = Absent
    /\ created' = FALSE
    /\ created_count' = 0
    /\ updated_count' = 0
    /\ stdout' = NewStdout
    /\ fetched' = <<>>
    /\ UNCHANGED <<Movie, Genre, MovieGenre, env>>
    /\ UNCHANGED genreVars
    /\ UNCHANGED proxyVars
    /\ UNCHANGED userVars
    /\ UNCHANGED stepVars
    /\ UNCHANGED raceVars
    /\ UNCHANGED twiceVars

\* Any sequence of runs of the two commands over a store that holds one
\* movie, a favorite and a watchlist row of it.
InitSyncs ==
    /\ Movie = {MovieRow(1, 1, Defaults(PlainRecord(1), Absent))}
    /\ Genre = {}
    /\ MovieGenre = EmptyBag
    /\ env = [bearer_token |-> Some("token"), api_key |-> Absent]
    /\ InitGenreCommand
    /\ InitMovieCommand
    /\ NoRequest
    /\ UserFavorite = {[id |-> 1, user |-> "ann", movie |-> 1]}
    /\ UserWatchlist = {[id |-> 1, user |-> "bob", movie |-> 1]}
    /\ pk_seq = [favorite |-> 1, watchlist |-> 1]
    /\ user_request = <<>>
    /\ user_response = <<>>
    /\ NoAuxiliary

NextSyncs ==
    \/ StartSync \/ FetchPage \/ ProcessSyncs \/ FinishSync \/ RunAgain
    \/ SyncSomeGenres

SpecSyncs == InitSyncs /\ [][NextSyncs]_vars

\* One page of MaxBatch records of FieldRecords, read into an empty Genre
\* table.
InitFields == InitRecords /\ Genre = {}

NextFields == ProcessFields \/ FinishSync

SpecFields == InitFields /\ [][NextFields]_vars

----------------------------------------------------------------------------
(* sync_popular_movies run twice over the same page *)

\* The records of the page: the plain records of the two movies, movie 1
\* under a new title with a genre, with a genre that no Genre row has, with a
\* genre twice, a record without an id and one with a rating the column
\* refuses.
TwiceRecords ==
    LET p == [PlainRecord(1) EXCEPT !.title = Some(<<"U">>)]
    IN  {PlainRecord(1), PlainRecord(2),
         [p EXCEPT !.genre_ids = Some(<<1>>)],
         [p EXCEPT !.genre_ids = Some(<<2, 1>>)],
         [p EXCEPT !.genre_ids = Some(<<1, 1>>)],
         [p EXCEPT !.id = Absent],
         [PlainRecord(2) EXCEPT !.vote_average = Some(100000)]}

\* The first run reads a record of its page.
FirstRun ==
    /\ run_no = 1
    /\ MovieLoopStep(TwiceRecords)
    /\ log' = Append(log, movie_data'[1])
    /\ UNCHANGED <<run_no, after_first>>

\* The command is invoked again and is handed the page the first run was
\* handed (lines 25-46 of the second run).
StartAgain ==
    /\ run_no = 1
    /\ pc = "done"
    /\ run_no' = 2
    /\ after_first' = Some([Movie |-> Movie, MovieGenre |-> MovieGenre])
    /\ pc' = "movies"
    /\ movies' = Len(log)
    /\ movie_data' = Absent
    /\ created' = FALSE
    /\ created_count' = 0
    /\ updated_count' = 0
    /\ stdout' = NewStdout
    /\ UNCHANGED <<pages, page, fetched, log>>
    /\ UNCHANGED <<Movie, Genre, MovieGenre, env>>
    /\ UNCHANGED genreVars
    /\ UNCHANGED proxyVars
    /\ UNCHANGED userVars
    /\ UNCHANGED stepVars
    /\ UNCHANGED raceVars

\* The second run reads the record the first run read at this place.
SecondRun ==
    /\ run_no = 2
    /\ pc = "movies"
    /\ movies > 0
    /\ MovieLoopStep({log[Len(log) - movies + 1]})
    /\ UNCHANGED twiceVars

\* One page of MaxBatch records of TwiceRecords, read into an empty store or
\* into one that holds movie 1 linked to genre 1; the Genre table holds genre
\* 1 and no other.
InitTwice ==
    /\ \/ Movie = {} /\ MovieGenre = EmptyBag
       \/ /\ Movie = {MovieRow(1, 1, Defaults(PlainRecord(1), Absent))}
          /\ MovieGenre = SetToBag({<<1, 1>>})
    /\ Genre = {GenreRow(1, <<"A">>)}
    /\ env = [bearer_token |-> Some("token"), api_key |-> Absent]
    /\ InitGenreCommand
    /\ NoRequest
    /\ NoUserRows
    /\ NoAuxiliary
    /\ pc = "movies"
    /\ pages = 1
    /\ page = 1
    /\ movies = MaxBatch
    /\ movie_data = Absent
    /\ created = FALSE
    /\ created_count = 0
    /\ updated_count = 0
    /\ stdout = NewStdout
    /\ fetched = <<1>>

NextTwice == FirstRun \/ StartAgain \/ SecondRun \/ FinishSync

SpecTwice == InitTwice /\ [][NextTwice]_vars

----------------------------------------------------------------------------
(* sync_popular_movies, the body of the movie loop statement by statement,
   with the process stopped at any statement and the local movies read
   while it runs *)

\* The records of the page: movie 1 under a new title, with no genre_ids,
\* with one, with two, with one twice and with one that no Genre row has.
StepRecords ==
    LET p == [PlainRecord(1) EXCEPT !.title = Some(<<"U">>)]
    IN  {p, [p EXCEPT !.id = Absent]}
        \cup {[p EXCEPT !.genre_ids = Some(l)] :
                 l \in {<<1>>, <<1, 2>>, <<1, 1>>, <<3, 1>>}}

\* A loop body inside transaction.atomic(): what the tables hold once the
\* body is left by an exception or the process stops.
RolledBack(now, start) == start

\* Lines 58-95 run under autocommit, each statement its own transaction:
\* what the tables hold once the body is left by an exception or the process
\* stops is what the statements wrote.
Committed(now, start) == now

\* Lines 104-110: the except clause of the loop body, after lines were
\* written for the record.
RecordRaised(lines, exc) ==
    /\ stdout' = [stdout EXCEPT !.errors = @ + 1, !.last = Append(lines, exc)]
    /\ pc' = AfterRecordError(movies - 1)
    /\ movies' = movies - 1
    /\ step' = "record"

\* Lines 47-77: the loop takes its next record, parses the date and upserts
\* the movie.
UpsertMovie ==
    /\ pc = "movies"
    /\ movies > 0
    /\ step = "record"
    /\ \E r \in StepRecords :
         LET date == ReleaseDate(r)
             up == MovieUpdateOrCreate(Movie, r.id[1], Defaults(r, date.value))
             exc == IF date.exc # "" THEN date.exc
                    ELSE IF r.id = Absent THEN "KeyError"
                    ELSE up.exc
         IN  /\ movie_data' = Some(r)
             /\ at_start' = Some([Movie |-> Movie, MovieGenre |-> MovieGenre])
             /\ IF exc # ""
                THEN /\ RecordRaised(<<>>, exc)
                     /\ UNCHANGED <<Movie, created>>
                ELSE /\ Movie' = up.rows
                     /\ created' = up.created[1]
                     /\ stdout' = [stdout EXCEPT !.last = <<>>]
                     /\ step' = "genres"
                     /\ UNCHANGED <<pc, movies>>
    /\ todo' = <<>>
    /\ UserFavorite' = Cascade(UserFavorite, Movie')
    /\ UserWatchlist' = Cascade(UserWatchlist, Movie')
    /\ UNCHANGED <<pages, page, created_count, updated_count, fetched>>
    /\ UNCHANGED <<Genre, MovieGenre, env, seen>>
    /\ UNCHANGED <<pk_seq, user_request, user_response>>
    /\ UNCHANGED genreVars
    /\ UNCHANGED proxyVars
    /\ UNCHANGED raceVars
    /\ UNCHANGED twiceVars

\* Lines 80-83: "if movie_data.get('genre_ids')" and the delete of the
\* movie's links.
ClearGenres ==
    /\ pc = "movies"
    /\ step = "genres"
    /\ LET r == movie_data[1]
       IN  IF r.genre_ids # Absent /\ r.genre_ids[1] # <<>>
           THEN /\ MovieGenre' = DeleteLinks(MovieGenre, r.id[1])
                /\ todo' = r.genre_ids[1]
                /\ step' = "links"
           ELSE /\ UNCHANGED <<MovieGenre, todo>>
                /\ step' = "count"
    /\ UNCHANGED <<Movie, Genre, env, at_start, seen>>
    /\ UNCHANGED movieVars
    /\ UNCHANGED genreVars
    /\ UNCHANGED proxyVars
    /\ UNCHANGED userVars
    /\ UNCHANGED raceVars
    /\ UNCHANGED twiceVars

\* Lines 85-95: one pass of the loop over genre_ids.
LinkGenre ==
    /\ pc = "movies"
    /\ step = "links"
    /\ LET m == movie_data[1].id[1]
           made == MovieGenreCreate(MovieGenre, m, Head(todo))
           on == IF Tail(todo) = <<>> THEN "count" ELSE "links"
       IN  IF ~HasRow(Genre, Head(todo))
           THEN /\ stdout' = [stdout EXCEPT !.last = Append(@, "Genre not found")]
                /\ todo' = Tail(todo)
                /\ step' = on
                /\ UNCHANGED <<Movie, MovieGenre, pc, movies>>
           ELSE IF made.exc # ""
           THEN /\ RecordRaised(stdout.last, made.exc)
                /\ todo' = <<>>
                /\ Movie' = Committed(Movie, at_start[1].Movie)
                /\ MovieGenre' = Committed(MovieGenre, at_start[1].MovieGenre)
           ELSE /\ MovieGenre' = made.links
                /\ todo' = Tail(todo)
                /\ step' = on
                /\ UNCHANGED <<Movie, stdout, pc, movies>>
    /\ UserFavorite' = Cascade(UserFavorite, Movie')
    /\ UserWatchlist' = Cascade(UserWatchlist, Movie')
    /\ UNCHANGED <<pages, page, movie_data, created, created_count,
                   updated_count, fetched>>
    /\ UNCHANGED <<Genre, env, at_start, seen>>
    /\ UNCHANGED <<pk_seq, user_request, user_response>>
    /\ UNCHANGED genreVars
    /\ UNCHANGED proxyVars
    /\ UNCHANGED raceVars
    /\ UNCHANGED twiceVars

\* Lines 97-102: the record is counted.
CountMovie ==
    /\ pc = "movies"
    /\ step = "count"
    /\ created_count' = IF created THEN created_count + 1 ELSE created_count
    /\ updated_count' = IF created THEN updated_count ELSE updated_count + 1
    /\ stdout' = [stdout EXCEPT
                     !.last = Append(@, IF created THEN "Created movie"
                                        ELSE "Updated movie")]
    /\ movies' = movies - 1
    /\ pc' = IF movies - 1 > 0 THEN "movies" ELSE "pages"
    /\ step' = "record"
    /\ UNCHANGED <<pages, page, movie_data, created, fetched>>
    /\ UNCHANGED <<Movie, Genre, MovieGenre, env, todo, at_start, seen>>
    /\ UNCHANGED genreVars
    /\ UNCHANGED proxyVars
    /\ UNCHANGED userVars
    /\ UNCHANGED raceVars
    /\ UNCHANGED twiceVars

\* The process stops (a crash, a kill) before its next statement.
StopRun ==
    /\ pc = "movies"
    /\ pc' = "stopped"
    /\ IF step = "record" THEN UNCHANGED <<Movie, MovieGenre>>
       ELSE /\ Movie' = Committed(Movie, at_start[1].Movie)
            /\ MovieGenre' = Committed(MovieGenre, at_start[1].MovieGenre)
    /\ UserFavorite' = Cascade(UserFavorite, Movie')
    /\ UserWatchlist' = Cascade(UserWatchlist, Movie')
    /\ UNCHANGED <<pages, page, movies, movie_data, created, created_count,
                   updated_count, stdout, fetched>>
    /\ UNCHANGED <<Genre, env>>
    /\ UNCHANGED <<pk_seq, user_request, user_response>>
    /\ UNCHANGED stepVars
    /\ UNCHANGED genreVars
    /\ UNCHANGED proxyVars
    /\ UNCHANGED raceVars
    /\ UNCHANGED twiceVars

\* MovieSerializer.get_genres: the genres of the movie's links.
get_genres(obj) ==
    {g \in Genre : CopiesIn(<<obj.tmdb_id, g.tmdb_id>>, MovieGenre) > 0}

\* GET movies/<movie_id>/ of MovieDetailAPIView, served while the command
\* runs.
MovieDetailAPIView ==
    /\ \E movie_id \in MovieIds :
         seen' = IF \E x \in Movie : x.id = movie_id
                 THEN LET obj == CHOOSE x \in Movie : x.id = movie_id
                      IN  Some([status |-> 200, id |-> movie_id,
                                tmdb_id |-> obj.tmdb_id, title |-> obj.title,
                                genres |-> get_genres(obj)])
                 ELSE Some([status |-> 404, id |-> movie_id, tmdb_id |-> 0,
                            title |-> <<>>, genres |-> {}])
    /\ UNCHANGED <<Movie, Genre, MovieGenre, env, step, todo, at_start>>
    /\ UNCHANGED movieVars
    /\ UNCHANGED genreVars
    /\ UNCHANGED proxyVars
    /\ UNCHANGED userVars
    /\ UNCHANGED raceVars
    /\ UNCHANGED twiceVars

\* One page of MaxBatch records of StepRecords, read over a store that holds
\* movie 1 as an earlier sync left it, linked to genre 2, and both genres.
InitSteps ==
    /\ Movie = {MovieRow(1, 1, Defaults(PlainRecord(1), Absent))}
    /\ Genre = {GenreRow(1, <<"A">>), GenreRow(2, <<"B">>)}
    /\ MovieGenre = SetToBag({<<1, 2>>})
    /\ env = [bearer_token |-> Some("token"), api_key |-> Absent]
    /\ InitGenreCommand
    /\ NoRequest
    /\ NoUserRows
    /\ NoAuxiliary
    /\ pc = "movies"
    /\ pages = 1
    /\ page = 1
    /\ movies = MaxBatch
    /\ movie_data = Absent
    /\ created = FALSE
    /\ created_count = 0
    /\ updated_count = 0
    /\ stdout = NewStdout
    /\ fetched = <<1>>

NextSteps ==
    \/ UpsertMovie \/ ClearGenres \/ LinkGenre \/ CountMovie \/ FinishSync
    \/ StopRun \/ MovieDetailAPIView

SpecSteps == InitSteps /\ [][NextSteps]_vars

\* Left alone, the statements of the body make of the tables what
\* MovieIteration makes of them.
StepsAgree ==
    (step = "record" /\ at_start # Absent /\ pc # "stopped")
        => LET it == MovieIteration(movie_data[1], at_start[1].Movie, Genre,
                                    at_start[1].MovieGenre)
           IN  /\ Movie = it.Movie
               /\ MovieGenre = it.MovieGenre
               /\ stdout.last = Append(it.lines,
                                    IF it.exc # "" THEN it.exc
                                    ELSE IF created THEN "Created movie"
                                    ELSE "Updated movie")

----------------------------------------------------------------------------
(* The TMDb client: services.py *)

MaxResults == 1     \* longest results list of a vendor body

\* A decoded JSON body.  A dict is a record of the keys the program reads,
\* each present or not; a list is known by its length only.
JsonDict(id, title, poster_path, results, pg, total_pages, total_results, other) ==
    [json |-> "dict", len |-> 0, id |-> id, title |-> title,
     poster_path |-> poster_path, results |-> results, page |-> pg,
     total_pages |-> total_pages, total_results |-> total_results,
     other |-> other]

JsonList(n) ==
    [json |-> "list", len |-> n, id |-> Absent, title |-> Absent,
     poster_path |-> Absent, results |-> Absent, page |-> Absent,
     total_pages |-> Absent, total_results |-> Absent, other |-> FALSE]

EmptyDict ==
    JsonDict(Absent, Absent, Absent, Absent, Absent, Absent, Absent, FALSE)

\* A dict of keys the program never reads, such as a vendor status message.
OtherDict ==
    JsonDict(Absent, Absent, Absent, Absent, Absent, Absent, Absent, TRUE)

\* The movie items a vendor body can carry.
Items ==
    {it \in [id : Opt({7}), title : Opt({<<"T">>}),
             poster_path : Opt({<<>>, <<"/", "p">>})] :
        it.poster_path # Absent => (it.id # Absent /\ it.title # Absent)}

ItemDicts ==
    {JsonDict(it.id, it.title, it.poster_path, Absent, Absent, Absent, Absent,
              FALSE) : it \in Items}

PageDicts ==
    {JsonDict(Absent, Absent, Absent, Some(l), Some(2), Some(3), Some(41), FALSE) :
        l \in SeqUpTo(Items, MaxResults)}
    \cup {JsonDict(Absent, Absent, Absent, Some(l), Absent, Absent, Absent, FALSE) :
        l \in SeqUpTo(Items, MaxResults)}
    \cup {JsonDict(Absent, Absent, Absent, Absent, Some(2), Some(3), Some(41), FALSE)}

Bodies == ItemDicts \cup PageDicts \cup {OtherDict, JsonList(0), JsonList(1)}

\* What requests.get, raise_for_status and response.json() do for one call:
\* a transport error, a status that is not 2xx, a body that is not JSON, or
\* a decoded body (Absent for the JSON text null, which decodes to None).
RemoteOutcomes ==
    {[kind |-> k, body |-> Absent] : k \in {"transport", "status", "undecodable"}}
    \cup {[kind |-> "json", body |-> b] : b \in Opt(Bodies)}

ParamKeys ==
    {"page", "query", "with_genres", "sort_by", "primary_release_year",
     "vote_average.gte", "vote_count.gte", "vote_count_gte", "api_key"}

NoParams == [k \in ParamKeys |-> Absent]

\* f"{prefix}{arg}{suffix}" below the base URL.
Endpoint(prefix, arg, suffix) == [prefix |-> prefix, arg |-> arg, suffix |-> suffix]

\* TMDbService._get_headers
GetHeaders ==
    [ContentType |-> "application/json", Accept |-> "application/json",
     Authorization |-> IF IsSet(env.bearer_token)
                       THEN Some(<<"Bearer ", env.bearer_token[1]>>)
                       ELSE Absent]

\* An API key that is sent whenever it is configured.
ApiKeyAlways == IsSet(env.api_key)

\* Lines 55-57: "if not self.bearer_token and self.api_key"
SendsApiKey == ~IsSet(env.bearer_token) /\ IsSet(env.api_key)

\* Lines 62-64: the exception the try block raises for an outcome, "" when
\* it returns: requests.get raises a RequestException, raise_for_status an
\* HTTPError, response.json() a ValueError.
Raises(outcome) ==
    CASE outcome.kind = "transport" -> "RequestException"
      [] outcome.kind = "status" -> "HTTPError"
      [] outcome.kind = "undecodable" -> "ValueError"
      [] OTHER -> ""

\* The except clauses without the one for ValueError.
ExceptWithoutValueError == {"HTTPError", "RequestException"}

\* Lines 65-77: the exceptions the except clauses of _make_request catch.
ExceptClauses == {"HTTPError", "RequestException", "ValueError"}

\* TMDbService._make_request: the call it issues and what it returns, the
\* decoded body or None (Absent); exc names an exception that leaves it, ""
\* when none does.  outcome records what the vendor did with the call.
MakeRequest(endpoint, params, outcome) ==
    [endpoint |-> endpoint,
     params |-> IF SendsApiKey
                THEN [params EXCEPT !["api_key"] = env.api_key]
                ELSE params,
     headers |-> GetHeaders,
     outcome |-> outcome,
     result |-> IF Raises(outcome) = "" THEN outcome.body ELSE Absent,
     exc |-> IF Raises(outcome) \in ExceptClauses THEN "" ELSE Raises(outcome)]

PageParams(pg) == [NoParams EXCEPT !["page"] = Some(pg)]

GetPopularMovies(pg, outcome) ==
    MakeRequest(Endpoint("movie/popular", Absent, ""), PageParams(pg), outcome)

GetTopRatedMovies(pg, outcome) ==
    MakeRequest(Endpoint("movie/top_rated", Absent, ""), PageParams(pg), outcome)

GetNowPlayingMovies(pg, outcome) ==
    MakeRequest(Endpoint("movie/now_playing", Absent, ""), PageParams(pg), outcome)

GetUpcomingMovies(pg, outcome) ==
    MakeRequest(Endpoint("movie/upcoming", Absent, ""), PageParams(pg), outcome)

GetMovieDetails(movie_id, outcome) ==
    MakeRequest(Endpoint("movie/", Some(IntToStr(movie_id)), ""), NoParams, outcome)

SearchMovies(query, pg, outcome) ==
    MakeRequest(Endpoint("search/movie", Absent, ""),
                [PageParams(pg) EXCEPT !["query"] = Some(query)], outcome)

GetGenres(outcome) ==
    MakeRequest(Endpoint("genre/movie/list", Absent, ""), NoParams, outcome)

GetSimilarMovies(movie_id, pg, outcome) ==
    MakeRequest(Endpoint("movie/", Some(IntToStr(movie_id)), "/similar"),
                PageParams(pg), outcome)

GetMovieRecommendations(movie_id, pg, outcome) ==
    MakeRequest(Endpoint("movie/", Some(IntToStr(movie_id)), "/recommendations"),
                PageParams(pg), outcome)

\* discover_movies(**kwargs): the keyword names are the query parameter names.
DiscoverMovies(kwargs, outcome) ==
    MakeRequest(Endpoint("discover/movie", Absent, ""), kwargs, outcome)

GetTrendingMovies(time_window, pg, outcome) ==
    MakeRequest(Endpoint("trending/movie/", Some(time_window), ""),
                PageParams(pg), outcome)

VoteCountFloor == 50

GetMoviesByGenre(genre_ids, pg, sort_by, outcome) ==
    LET genre_string == Join([i \in DOMAIN genre_ids |-> IntToStr(genre_ids[i])], ",")
    IN  DiscoverMovies([NoParams EXCEPT !["with_genres"] = Some(genre_string),
                                        !["sort_by"] = Some(sort_by),
                                        !["page"] = Some(pg),
                                        !["vote_count_gte"] = Some(VoteCountFloor)],
                       outcome)

----------------------------------------------------------------------------
(* The read-through proxy: views.py *)

\* request.GET of a proxy request: each query parameter given or not.
QueryKeys ==
    {"page", "q", "genres", "sort_by", "time_window", "with_genres",
     "primary_release_year", "vote_average_gte", "vote_count_gte"}

NoQuery == [k \in QueryKeys |-> Absent]

Request(view, id, query) == [view |-> view, id |-> id, GET |-> query]

\* A Response: its status and its body, the keys of the body present or not.
Reply(status, error, results, pg, total_pages, total_results, query, item, raw) ==
    [status |-> status, error |-> error, results |-> results, page |-> pg,
     total_pages |-> total_pages, total_results |-> total_results,
     query |-> query, item |-> item, raw |-> raw]

\* Response({"error": message}, status=status)
Error(status, message) ==
    Reply(status, message, Absent, Absent, Absent, Absent, Absent, Absent, Absent)

\* What a view computes: its Response, or the exception that left its body,
\* and the remote calls it made.
Done(resp, calls) == [response |-> resp, remote |-> calls]

\* if not data
Falsy(data) ==
    \/ data = Absent
    \/ data[1].json = "list" /\ data[1].len = 0
    \/ data[1] = EmptyDict

\* The item a dict is when read as a movie.
ItemOf(d) == [id |-> d.id, title |-> d.title, poster_path |-> d.poster_path]

\* TMDbMovieSerializer(item).data: id and title are required, an optional
\* field is left out when the item lacks it, and poster_url is computed from
\* poster_path when that is not empty.
Serializable(it) == it.id # Absent /\ it.title # Absent

Serialize(it) ==
    [id |-> it.id[1], title |-> it.title[1], poster_path |-> it.poster_path,
     poster_url |-> IF it.poster_path # Absent /\ it.poster_path[1] # <<>>
                    THEN Some(<<"https://image.tmdb.org/t/p/w500">> \o it.poster_path[1])
                    ELSE Absent]

DefaultPage == 1

\* A total_pages that is left out when the vendor leaves it out.
TotalPagesAsGiven(d) == Get(d.total_pages, 0)

\* data.get("total_pages", 1)
TotalPages(d) == Get(d.total_pages, 1)

\* TMDbAPIBaseMixin.handle_tmdb_response: the Response, or the name of the
\* exception it raises (a list has no get; a required field is missing).
HandleTmdbResponse(data) ==
    IF Falsy(data)
    THEN [response |-> Error(503, "Unable to fetch data from TMDb API"), exc |-> ""]
    ELSE IF data[1].json = "list"
    THEN [response |-> Error(500, "AttributeError"), exc |-> "AttributeError"]
    ELSE LET results == Get(data[1].results, <<>>)
         IN  IF \E i \in DOMAIN results : ~Serializable(results[i])
             THEN [response |-> Error(500, "KeyError"), exc |-> "KeyError"]
             ELSE [response |->
                     Reply(200, "",
                           Some([i \in DOMAIN results |-> Serialize(results[i])]),
                           Some(Get(data[1].page, DefaultPage)),
                           Some(TotalPages(data[1])),
                           Some(Get(data[1].total_results, 0)),
                           Absent, Absent, Absent),
                   exc |-> ""]

\* The except clauses that close a view: ValueError is a client error with
\* the view's message, any other exception an internal error.
Caught(exc, message) ==
    IF exc = "ValueError" THEN Error(400, message) ELSE Error(500, exc)

ConfigError == Error(500, "TMDb API configuration error")

\* The values the model gives the query parameters.
PageStrings == {<<"0">>, <<"a", "b", "c">>, <<"2">>, <<" ", "3", " ">>, <<>>}

PathIds == {7, 8}

QueryTexts == {<<" ">>, <<"x">>, <<" ", "x", " ">>}

GenreLists ==
    {<<>>, <<"5">>, <<"2", "8", ",", "1", "2">>, <<" ", "1", " ", ",", "0", "2">>,
     <<"2", "8", ",", ",", "1", "2">>, <<"2", "8", ",", "a", "b", "c">>}

SortKeys == {"vote_average.desc", "title.asc"}

TimeWindows == {"day", "week", "month"}

Numbers == {<<"1", "0">>, <<"a", "b", "c">>}

Ratings == {<<"7", ".", "5">>, <<"a", "b", "c">>}

\* int(s), float(s) and the parsed genres list of the strings above.
IntOf == [s \in PageStrings \cup Numbers |-> ParseInt(s)]

FloatOf == [s \in Ratings |-> ParseFloat(s)]

\* [int(genre_id.strip()) for genre_id in genres_param.split(",")] of the
\* stripped parameter: the int of each token, Absent where int() raises.
GenreIdsOf ==
    [g \in GenreLists |->
        LET tokens == Split(Strip(g), ",")
        IN  [i \in DOMAIN tokens |-> ParseInt(Strip(tokens[i]))]]

\* int(request.GET.get(key, default))
IntParam(req, key, default) ==
    IF req.GET[key] = Absent THEN Some(default) ELSE IntOf[req.GET[key][1]]

\* The try block of a list view once the page is read and the remote call
\* made: answer nodata when the view checks the result itself and it is
\* falsy, else hand the result to handle_tmdb_response; message is the text
\* of the view's ValueError reply.
Answer(call, message, nodata) ==
    LET handled == HandleTmdbResponse(call.result)
    IN  IF call.exc # "" THEN Done(Caught(call.exc, message), <<call>>)
        ELSE IF nodata # Absent /\ Falsy(call.result)
        THEN Done(nodata[1], <<call>>)
        ELSE Done(IF handled.exc = "" THEN handled.response
                  ELSE Caught(handled.exc, message),
                  <<call>>)

\* The ValueError reply of a view whose page is not an int.
BadPage(message) == Done(Caught("ValueError", message), <<>>)

\* page = int(request.GET.get("page", 1))
PageOf(req) == IntParam(req, "page", DefaultPage)

PopularMoviesAPIView(req, outcome) ==
    IF ~Configured THEN Done(ConfigError, <<>>)
    ELSE IF PageOf(req) = Absent THEN BadPage("Invalid page number")
         ELSE Answer(GetPopularMovies(PageOf(req)[1], outcome),
                     "Invalid page number",
                     Absent)

TopRatedMoviesAPIView(req, outcome) ==
    IF ~Configured THEN Done(ConfigError, <<>>)
    ELSE IF PageOf(req) = Absent THEN BadPage("Invalid page number")
         ELSE Answer(GetTopRatedMovies(PageOf(req)[1], outcome),
                     "Invalid page number",
                     Absent)

NowPlayingMoviesAPIView(req, outcome) ==
    IF ~Configured THEN Done(ConfigError, <<>>)
    ELSE IF PageOf(req) = Absent THEN BadPage("Invalid page number")
         ELSE Answer(GetNowPlayingMovies(PageOf(req)[1], outcome),
                     "Invalid page number",
                     Absent)

UpcomingMoviesAPIView(req, outcome) ==
    IF ~Configured THEN Done(ConfigError, <<>>)
    ELSE IF PageOf(req) = Absent THEN BadPage("Invalid page number")
         ELSE Answer(GetUpcomingMovies(PageOf(req)[1], outcome),
                     "Invalid page number",
                     Absent)

SearchMoviesAPIView(req, outcome) ==
    LET query == Strip(Get(req.GET["q"], <<>>))
    IN  IF query = <<>>
        THEN Done(Error(400, "Query parameter q is required"), <<>>)
        ELSE IF ~Configured THEN Done(ConfigError, <<>>)
        ELSE LET out == IF PageOf(req) = Absent THEN BadPage("Invalid page number")
                        ELSE Answer(SearchMovies(query, PageOf(req)[1], outcome),
                                    "Invalid page number",
                                    Some(Error(503, "Unable to perform search")))
             IN  IF out.response.status = 200
                 THEN Done([out.response EXCEPT !.query = Some(query)], out.remote)
                 ELSE out

\* A detail view that answers a falsy result as the list views do.
DetailUnavailable == Error(503, "Unable to fetch data from TMDb API")

\* Lines 432-435: the detail view's reply to a falsy result.
DetailNoData == Error(404, "Movie not found")

TMDbMovieDetailAPIView(req, outcome) ==
    IF ~Configured THEN Done(ConfigError, <<>>)
    ELSE LET call == GetMovieDetails(req.id[1], outcome)
             data == call.result
         IN  IF call.exc # "" THEN Done(Error(500, call.exc), <<call>>)
             ELSE IF Falsy(data) THEN Done(DetailNoData, <<call>>)
             ELSE IF data[1].json = "list"
             THEN Done(Caught("AttributeError", ""), <<call>>)
             ELSE IF ~Serializable(ItemOf(data[1]))
             THEN Done(Caught("KeyError", ""), <<call>>)
             ELSE Done(Reply(200, "", Absent, Absent, Absent, Absent, Absent,
                             Some(Serialize(ItemOf(data[1]))), Absent),
                       <<call>>)

TMDbGenresAPIView(req, outcome) ==
    IF ~Configured THEN Done(ConfigError, <<>>)
    ELSE LET call == GetGenres(outcome)
         IN  IF call.exc # "" THEN Done(Error(500, call.exc), <<call>>)
             ELSE IF Falsy(call.result)
             THEN Done(Error(503, "Unable to fetch genres from TMDb API"), <<call>>)
             ELSE Done(Reply(200, "", Absent, Absent, Absent, Absent, Absent,
                             Absent, call.result),
                       <<call>>)

SimilarMoviesAPIView(req, outcome) ==
    IF ~Configured THEN Done(ConfigError, <<>>)
    ELSE IF PageOf(req) = Absent THEN BadPage("Invalid page number")
         ELSE Answer(GetSimilarMovies(req.id[1], PageOf(req)[1], outcome),
                     "Invalid page number",
                     Some(Error(404, "Movie not found or no similar movies available")))

MovieRecommendationsAPIView(req, outcome) ==
    IF ~Configured THEN Done(ConfigError, <<>>)
    ELSE IF PageOf(req) = Absent THEN BadPage("Invalid page number")
         ELSE Answer(GetMovieRecommendations(req.id[1], PageOf(req)[1], outcome),
                     "Invalid page number",
                     Some(Error(404, "Movie not found or no recommendations available")))

TrendingMoviesAPIView(req, outcome) ==
    IF ~Configured THEN Done(ConfigError, <<>>)
    ELSE LET time_window == Get(req.GET["time_window"], "day")
         IN  IF time_window \notin {"day", "week"}
             THEN Done(Error(400, "time_window must be day or week"), <<>>)
             ELSE IF PageOf(req) = Absent THEN BadPage("Invalid page number")
                  ELSE Answer(GetTrendingMovies(time_window, PageOf(req)[1], outcome),
                              "Invalid page number",
                              Some(Error(503, "Unable to fetch trending movies")))

\* The sort keys with one more of the vendor's.
vendor_sorts ==
    {"popularity.desc", "vote_average.desc", "release_date.desc", "revenue.desc",
     "title.asc"}

valid_sorts ==
    {"popularity.desc", "vote_average.desc", "release_date.desc", "revenue.desc"}

MoviesByGenreAPIView(req, outcome) ==
    IF ~Configured THEN Done(ConfigError, <<>>)
    ELSE
    LET genres_param == Strip(Get(req.GET["genres"], <<>>))
        parsed == GenreIdsOf[req.GET["genres"][1]]
        genre_ids == [i \in DOMAIN parsed |-> parsed[i][1]]
        sort_by == Get(req.GET["sort_by"], "popularity.desc")
    IN  IF genres_param = <<>>
        THEN Done(Error(400, "genres parameter is required"), <<>>)
        ELSE IF \E i \in DOMAIN parsed : parsed[i] = Absent
        THEN Done(Caught("ValueError", "Invalid genre IDs or page number"), <<>>)
        ELSE IF sort_by \notin valid_sorts
        THEN Done(Error(400, "sort_by must be one of"), <<>>)
        ELSE IF PageOf(req) = Absent THEN BadPage("Invalid genre IDs or page number")
             ELSE Answer(GetMoviesByGenre(genre_ids, PageOf(req)[1], sort_by, outcome),
                         "Invalid genre IDs or page number",
                         Some(Error(503, "Unable to fetch movies for the specified genres")))

DefaultMinVotes == 50

\* A filter that is forwarded whenever its key is in the query string.
InQuery(req, key) == req.GET[key] # Absent

\* if value := request.GET.get(key)
Given(req, key) == req.GET[key] # Absent /\ req.GET[key][1] # <<>>

DiscoverMoviesAPIView(req, outcome) ==
    IF ~Configured THEN Done(ConfigError, <<>>)
    ELSE
    LET year == IF Given(req, "primary_release_year")
                THEN IntOf[req.GET["primary_release_year"][1]] ELSE Absent
        min_rating == IF Given(req, "vote_average_gte")
                      THEN FloatOf[req.GET["vote_average_gte"][1]] ELSE Absent
        min_votes == IntParam(req, "vote_count_gte", DefaultMinVotes)
        sort_by == Get(req.GET["sort_by"], "popularity.desc")
        discover_params ==
            [NoParams EXCEPT
               !["with_genres"] = IF Given(req, "with_genres")
                                  THEN req.GET["with_genres"] ELSE Absent,
               !["primary_release_year"] = year,
               !["vote_average.gte"] = min_rating,
               !["vote_count.gte"] = min_votes,
               !["sort_by"] = Some(sort_by)]
    IN  IF \/ Given(req, "primary_release_year") /\ year = Absent
           \/ Given(req, "vote_average_gte") /\ min_rating = Absent
           \/ min_votes = Absent
        THEN Done(Caught("ValueError", "Invalid parameter value"), <<>>)
        ELSE IF sort_by \notin valid_sorts
        THEN Done(Error(400, "sort_by must be one of"), <<>>)
        ELSE IF PageOf(req) = Absent THEN BadPage("Invalid parameter value")
             ELSE Answer(DiscoverMovies([discover_params EXCEPT
                                           !["page"] = PageOf(req)], outcome),
                         "Invalid parameter value",
                         Some(Error(503, "Unable to discover movies with the specified criteria")))

\* The requests the model sends.
PageQueries == {[NoQuery EXCEPT !["page"] = pg] : pg \in Opt(PageStrings)}

PlainRequests(view) == {Request(view, Absent, q) : q \in PageQueries}

IdRequests(view) ==
    {Request(view, Some(id), q) : id \in PathIds, q \in PageQueries}

DetailRequests ==
    {Request("tmdb_movie_detail", Some(id), NoQuery) : id \in PathIds}

SearchRequests ==
    {Request("tmdb_search", Absent, [q EXCEPT !["q"] = text]) :
        q \in PageQueries, text \in Opt(QueryTexts)}

TrendingRequests ==
    {Request("trending_movies", Absent, [q EXCEPT !["time_window"] = w]) :
        q \in PageQueries, w \in Opt(TimeWindows)}

ByGenreRequests ==
    {Request("movies_by_genre", Absent,
             [q EXCEPT !["genres"] = g, !["sort_by"] = k]) :
        q \in PageQueries, g \in Opt(GenreLists), k \in Opt(SortKeys)}

DiscoverRequests ==
    {Request("discover_movies", Absent,
             [NoQuery EXCEPT !["page"] = pg, !["with_genres"] = g,
                             !["primary_release_year"] = y,
                             !["vote_average_gte"] = r,
                             !["vote_count_gte"] = n, !["sort_by"] = k]) :
        pg \in Opt({<<"0">>, <<"a", "b", "c">>}),
        g \in Opt({<<>>, <<"2", "8">>}),
        y \in Opt(Numbers), r \in Opt(Ratings), n \in Opt(Numbers),
        k \in Opt(SortKeys)}

\* The server has no request yet.
Idle == request = Absent

\* One request is served: the view is given req and returns out, its
\* Response and the remote calls it made.
Serve(req, out) ==
    /\ request' = Some(req)
    /\ response' = Some(out.response)
    /\ remote' = out.remote
    /\ UNCHANGED <<Movie, Genre, MovieGenre, env>>
    /\ UNCHANGED genreVars
    /\ UNCHANGED movieVars
    /\ UNCHANGED userVars
    /\ UNCHANGED stepVars
    /\ UNCHANGED raceVars
    /\ UNCHANGED twiceVars

tmdb_popular ==
    /\ Idle
    /\ \E req \in PlainRequests("tmdb_popular"), outcome \in RemoteOutcomes :
          Serve(req, PopularMoviesAPIView(req, outcome))

tmdb_top_rated ==
    /\ Idle
    /\ \E req \in PlainRequests("tmdb_top_rated"), outcome \in RemoteOutcomes :
          Serve(req, TopRatedMoviesAPIView(req, outcome))

tmdb_now_playing ==
    /\ Idle
    /\ \E req \in PlainRequests("tmdb_now_playing"), outcome \in RemoteOutcomes :
          Serve(req, NowPlayingMoviesAPIView(req, outcome))

tmdb_upcoming ==
    /\ Idle
    /\ \E req \in PlainRequests("tmdb_upcoming"), outcome \in RemoteOutcomes :
          Serve(req, UpcomingMoviesAPIView(req, outcome))

tmdb_search ==
    /\ Idle
    /\ \E req \in SearchRequests, outcome \in RemoteOutcomes :
          Serve(req, SearchMoviesAPIView(req, outcome))

tmdb_movie_detail ==
    /\ Idle
    /\ \E req \in DetailRequests, outcome \in RemoteOutcomes :
          Serve(req, TMDbMovieDetailAPIView(req, outcome))

tmdb_genres ==
    /\ Idle
    /\ \E req \in {Request("tmdb_genres", Absent, NoQuery)}, outcome \in RemoteOutcomes :
          Serve(req, TMDbGenresAPIView(req, outcome))

similar_movies ==
    /\ Idle
    /\ \E req \in IdRequests("similar_movies"), outcome \in RemoteOutcomes :
          Serve(req, SimilarMoviesAPIView(req, outcome))

movie_recommendations ==
    /\ Idle
    /\ \E req \in IdRequests("movie_recommendations"), outcome \in RemoteOutcomes :
          Serve(req, MovieRecommendationsAPIView(req, outcome))

trending_movies ==
    /\ Idle
    /\ \E req \in TrendingRequests, outcome \in RemoteOutcomes :
          Serve(req, TrendingMoviesAPIView(req, outcome))

movies_by_genre ==
    /\ Idle
    /\ \E req \in ByGenreRequests, outcome \in RemoteOutcomes :
          Serve(req, MoviesByGenreAPIView(req, outcome))

discover_movies ==
    /\ Idle
    /\ \E req \in DiscoverRequests, outcome \in RemoteOutcomes :
          Serve(req, DiscoverMoviesAPIView(req, outcome))

\* The environments a server is started in.
Environments ==
    [bearer_token : Opt({"", "bearer"}), api_key : Opt({"key"})]

InitProxy ==
    /\ Movie = {}
    /\ Genre = {}
    /\ MovieGenre = EmptyBag
    /\ env \in Environments
    /\ InitGenreCommand
    /\ InitMovieCommand
    /\ NoRequest
    /\ NoUserRows
    /\ NoAuxiliary

NextProxy ==
    \/ tmdb_popular \/ tmdb_top_rated \/ tmdb_now_playing \/ tmdb_upcoming
    \/ tmdb_search \/ tmdb_movie_detail \/ tmdb_genres
    \/ similar_movies \/ movie_recommendations \/ trending_movies
    \/ movies_by_genre \/ discover_movies

SpecProxy == InitProxy /\ [][NextProxy]_vars

----------------------------------------------------------------------------
(* Favorites and watchlist: users/views.py *)

MaxCreates == 3     \* most rows the two tables are given in one behaviour

\* The authenticated users, and the ids a request can name: the primary keys
\* of the two local movies and one more.
Users == {"ann", "bob"}
RequestIds == 1..3

\* Response(data, status=status): detail is the error text, flag the value
\* of is_favorite or is_in_watchlist.
UserReply(status, detail, flag) ==
    [status |-> status, detail |-> detail, flag |-> flag, rows |-> Absent]

\* ListModelMixin.list over get_queryset of the two ListCreate views: the
\* rows of the requesting user.
List(rows, user) ==
    [UserReply(200, "", Absent) EXCEPT !.rows = Some({x \in rows : x.user = user})]

\* A create that does not look the movie up.
AnyMovieId(movie_id) == TRUE

\* Movie.objects.get(id=movie_id) finds a row.
HasMovie(movie_id) == \E x \in Movie : x.id = movie_id

\* A lookup of the movie alone, whoever the user.
ExistsForAnyUser(rows, user, movie_id) == \E x \in rows : x.movie = movie_id

\* objects.filter(user=request.user, movie=movie).exists()
Exists(rows, user, movie_id) ==
    \E x \in rows : x.user = user /\ x.movie = movie_id

\* CreateModelMixin.create with perform_create of the two ListCreate views:
\* movie_id is the body's field (Absent when missing), taken the text of the
\* duplicate error, seq the last primary key given.
ListCreate(rows, seq, user, movie_id, taken) ==
    IF movie_id = Absent
    THEN [rows |-> rows, seq |-> seq,
          response |-> UserReply(400, "This field is required.", Absent)]
    ELSE IF ~HasMovie(movie_id[1])
    THEN [rows |-> rows, seq |-> seq,
          response |-> UserReply(400, "Movie not found.", Absent)]
    ELSE IF Exists(rows, user, movie_id[1])
    THEN [rows |-> rows, seq |-> seq, response |-> UserReply(400, taken, Absent)]
    ELSE [rows |-> rows \cup {[id |-> seq + 1, user |-> user, movie |-> movie_id[1]]},
          seq |-> seq + 1,
          response |-> UserReply(201, "", Absent)]

\* A destroy over a queryset of every user's rows.
DestroyAnyRow(rows, user, pk) ==
    IF \E x \in rows : x.id = pk
    THEN [rows |-> {x \in rows : x.id # pk}, response |-> UserReply(204, "", Absent)]
    ELSE [rows |-> rows, response |-> UserReply(404, "Not found.", Absent)]

\* DestroyModelMixin.destroy over get_queryset of the two Detail views: the
\* row of primary key pk among the user's own.
Destroy(rows, user, pk) ==
    IF \E x \in rows : x.user = user /\ x.id = pk
    THEN [rows |-> {x \in rows : x.id # pk}, response |-> UserReply(204, "", Absent)]
    ELSE [rows |-> rows, response |-> UserReply(404, "Not found.", Absent)]

\* check_favorite_status and check_watchlist_status
CheckStatus(rows, user, movie_id) ==
    IF HasMovie(movie_id)
    THEN UserReply(200, "", Some(Exists(rows, user, movie_id)))
    ELSE UserReply(404, "Movie not found", Absent)

UserRequest(view, method, user, arg) ==
    [view |-> view, method |-> method, user |-> user, arg |-> arg]

\* POST favorites/ with the body {"movie_id": ...} or {}
favorites ==
    /\ pk_seq.favorite + pk_seq.watchlist < MaxCreates
    /\ \E user \in Users, movie_id \in Opt(RequestIds) :
          LET out == ListCreate(UserFavorite, pk_seq.favorite, user, movie_id,
                                "Movie is already in favorites.")
          IN  /\ UserFavorite' = out.rows
              /\ pk_seq' = [pk_seq EXCEPT !.favorite = out.seq]
              /\ user_request' = Some(UserRequest("favorites", "POST", user, movie_id))
              /\ user_response' = Some(out.response)
    /\ UNCHANGED <<Movie, Genre, MovieGenre, env, UserWatchlist>>
    /\ UNCHANGED genreVars
    /\ UNCHANGED movieVars
    /\ UNCHANGED proxyVars
    /\ UNCHANGED stepVars
    /\ UNCHANGED raceVars
    /\ UNCHANGED twiceVars

\* DELETE favorites/<pk>/
favorite_detail ==
    /\ \E user \in Users, pk \in RequestIds :
          LET out == Destroy(UserFavorite, user, pk)
          IN  /\ UserFavorite' = out.rows
              /\ user_request' =
                    Some(UserRequest("favorite_detail", "DELETE", user, Some(pk)))
              /\ user_response' = Some(out.response)
    /\ UNCHANGED <<Movie, Genre, MovieGenre, env, UserWatchlist, pk_seq>>
    /\ UNCHANGED genreVars
    /\ UNCHANGED movieVars
    /\ UNCHANGED proxyVars
    /\ UNCHANGED stepVars
    /\ UNCHANGED raceVars
    /\ UNCHANGED twiceVars

\* GET favorites/check/<movie_id>/
check_favorite ==
    /\ \E user \in Users, movie_id \in RequestIds :
          /\ user_request' =
                Some(UserRequest("check_favorite", "GET", user, Some(movie_id)))
          /\ user_response' = Some(CheckStatus(UserFavorite, user, movie_id))
    /\ UNCHANGED <<Movie, Genre, MovieGenre, env, UserFavorite, UserWatchlist, pk_seq>>
    /\ UNCHANGED genreVars
    /\ UNCHANGED movieVars
    /\ UNCHANGED proxyVars
    /\ UNCHANGED stepVars
    /\ UNCHANGED raceVars
    /\ UNCHANGED twiceVars

\* POST watchlist/ with the body {"movie_id": ...} or {}
watchlist ==
    /\ pk_seq.favorite + pk_seq.watchlist < MaxCreates
    /\ \E user \in Users, movie_id \in Opt(RequestIds) :
          LET out == ListCreate(UserWatchlist, pk_seq.watchlist, user, movie_id,
                                "Movie is already in watchlist.")
          IN  /\ UserWatchlist' = out.rows
              /\ pk_seq' = [pk_seq EXCEPT !.watchlist = out.seq]
              /\ user_request' = Some(UserRequest("watchlist", "POST", user, movie_id))
              /\ user_response' = Some(out.response)
    /\ UNCHANGED <<Movie, Genre, MovieGenre, env, UserFavorite>>
    /\ UNCHANGED genreVars
    /\ UNCHANGED movieVars
    /\ UNCHANGED proxyVars
    /\ UNCHANGED stepVars
    /\ UNCHANGED raceVars
    /\ UNCHANGED twiceVars

\* DELETE watchlist/<pk>/
watchlist_detail ==
    /\ \E user \in Users, pk \in RequestIds :
          LET out == Destroy(UserWatchlist, user, pk)
          IN  /\ UserWatchlist' = out.rows
              /\ user_request' =
                    Some(UserRequest("watchlist_detail", "DELETE", user, Some(pk)))
              /\ user_response' = Some(out.response)
    /\ UNCHANGED <<Movie, Genre, MovieGenre, env, UserFavorite, pk_seq>>
    /\ UNCHANGED genreVars
    /\ UNCHANGED movieVars
    /\ UNCHANGED proxyVars
    /\ UNCHANGED stepVars
    /\ UNCHANGED raceVars
    /\ UNCHANGED twiceVars

\* GET watchlist/check/<movie_id>/
check_watchlist ==
    /\ \E user \in Users, movie_id \in RequestIds :
          /\ user_request' =
                Some(UserRequest("check_watchlist", "GET", user, Some(movie_id)))
          /\ user_response' = Some(CheckStatus(UserWatchlist, user, movie_id))
    /\ UNCHANGED <<Movie, Genre, MovieGenre, env, UserFavorite, UserWatchlist, pk_seq>>
    /\ UNCHANGED genreVars
    /\ UNCHANGED movieVars
    /\ UNCHANGED proxyVars
    /\ UNCHANGED stepVars
    /\ UNCHANGED raceVars
    /\ UNCHANGED twiceVars

\* GET favorites/
list_favorites ==
    /\ \E user \in Users :
          /\ user_request' = Some(UserRequest("favorites", "GET", user, Absent))
          /\ user_response' = Some(List(UserFavorite, user))
    /\ UNCHANGED <<Movie, Genre, MovieGenre, env, UserFavorite, UserWatchlist, pk_seq>>
    /\ UNCHANGED genreVars
    /\ UNCHANGED movieVars
    /\ UNCHANGED proxyVars
    /\ UNCHANGED stepVars
    /\ UNCHANGED raceVars
    /\ UNCHANGED twiceVars

\* GET watchlist/
list_watchlist ==
    /\ \E user \in Users :
          /\ user_request' = Some(UserRequest("watchlist", "GET", user, Absent))
          /\ user_response' = Some(List(UserWatchlist, user))
    /\ UNCHANGED <<Movie, Genre, MovieGenre, env, UserFavorite, UserWatchlist, pk_seq>>
    /\ UNCHANGED genreVars
    /\ UNCHANGED movieVars
    /\ UNCHANGED proxyVars
    /\ UNCHANGED stepVars
    /\ UNCHANGED raceVars
    /\ UNCHANGED twiceVars

\* The requests of authenticated users after a movie sync that stored two
\* movies, the one of remote id 2 first.
InitUsers ==
    /\ Movie = {MovieRow(1, 2, Defaults(PlainRecord(2), Absent)),
                MovieRow(2, 1, Defaults(PlainRecord(1), Absent))}
    /\ Genre = {}
    /\ MovieGenre = EmptyBag
    /\ env = [bearer_token |-> Some("token"), api_key |-> Absent]
    /\ InitGenreCommand
    /\ InitMovieCommand
    /\ NoRequest
    /\ NoUserRows
    /\ NoAuxiliary

NextUsers ==
    \/ favorites \/ favorite_detail \/ check_favorite \/ list_favorites
    \/ watchlist \/ watchlist_detail \/ check_watchlist \/ list_watchlist

SpecUsers == InitUsers /\ [][NextUsers]_vars

----------------------------------------------------------------------------
(* Two create requests served at the same time, each by its own worker:
   perform_create statement by statement *)

Slots == {1, 2}

\* A worker that serves no request.
NoCreate ==
    [view |-> "", user |-> "", movie_id |-> 0, at |-> "idle", status |-> 0,
     detail |-> ""]

\* The detail of the view's duplicate error.
AlreadyIn(view) ==
    IF view = "favorites" THEN "Movie is already in favorites."
    ELSE "Movie is already in watchlist."

\* The table a create request is about.
CreateTable(view) == IF view = "favorites" THEN UserFavorite ELSE UserWatchlist

\* POST favorites/ or POST watchlist/ with {"movie_id": ...} reaches
\* perform_create.
ReceiveCreate ==
    /\ \E i \in Slots, view \in {"favorites", "watchlist"}, user \in Users,
          movie_id \in RequestIds :
         /\ inflight[i].at = "idle"
         /\ inflight' = [inflight EXCEPT
                            ![i] = [NoCreate EXCEPT !.view = view, !.user = user,
                                                    !.movie_id = movie_id,
                                                    !.at = "check"]]
    /\ UNCHANGED <<Movie, Genre, MovieGenre, env>>
    /\ UNCHANGED genreVars
    /\ UNCHANGED movieVars
    /\ UNCHANGED proxyVars
    /\ UNCHANGED userVars
    /\ UNCHANGED stepVars
    /\ UNCHANGED twiceVars

\* perform_create up to the save: Movie.objects.get and the
\* filter(...).exists() test, each raising ValidationError (400).
CheckCreate ==
    /\ \E i \in Slots :
         LET c == inflight[i]
         IN  /\ c.at = "check"
             /\ inflight' =
                   [inflight EXCEPT ![i] =
                      IF ~HasMovie(c.movie_id)
                      THEN [c EXCEPT !.at = "done", !.status = 400,
                                     !.detail = "Movie not found."]
                      ELSE IF Exists(CreateTable(c.view), c.user, c.movie_id)
                      THEN [c EXCEPT !.at = "done", !.status = 400,
                                     !.detail = AlreadyIn(c.view)]
                      ELSE [c EXCEPT !.at = "save"]]
    /\ UNCHANGED <<Movie, Genre, MovieGenre, env>>
    /\ UNCHANGED genreVars
    /\ UNCHANGED movieVars
    /\ UNCHANGED proxyVars
    /\ UNCHANGED userVars
    /\ UNCHANGED stepVars
    /\ UNCHANGED twiceVars

\* serializer.save(user=..., movie=...): the INSERT, under unique_together
\* (user, movie).  Its IntegrityError is caught by nothing, neither in the
\* view nor by the framework's exception handler: the request ends as a 500.
SaveCreate ==
    /\ \E i \in Slots :
         LET c == inflight[i]
             key == IF c.view = "favorites" THEN "favorite" ELSE "watchlist"
             rows == CreateTable(c.view)
             unique == ~Exists(rows, c.user, c.movie_id)
             saved == IF unique
                      THEN rows \cup {[id |-> pk_seq[key] + 1, user |-> c.user,
                                       movie |-> c.movie_id]}
                      ELSE rows
         IN  /\ c.at = "save"
             /\ inflight' =
                   [inflight EXCEPT ![i] =
                      IF unique THEN [c EXCEPT !.at = "done", !.status = 201]
                      ELSE [c EXCEPT !.at = "done", !.status = 500,
                                     !.detail = "IntegrityError"]]
             /\ pk_seq' = IF unique THEN [pk_seq EXCEPT ![key] = @ + 1] ELSE pk_seq
             /\ IF c.view = "favorites"
                THEN UserFavorite' = saved /\ UNCHANGED UserWatchlist
                ELSE UserWatchlist' = saved /\ UNCHANGED UserFavorite
    /\ UNCHANGED <<Movie, Genre, MovieGenre, env, user_request, user_response>>
    /\ UNCHANGED genreVars
    /\ UNCHANGED movieVars
    /\ UNCHANGED proxyVars
    /\ UNCHANGED stepVars
    /\ UNCHANGED twiceVars

\* Two movies, no favorite or watchlist row, two workers with no request.
InitRace ==
    /\ Movie = {MovieRow(1, 2, Defaults(PlainRecord(2), Absent)),
                MovieRow(2, 1, Defaults(PlainRecord(1), Absent))}
    /\ Genre = {}
    /\ MovieGenre = EmptyBag
    /\ env = [bearer_token |-> Some("token"), api_key |-> Absent]
    /\ InitGenreCommand
    /\ InitMovieCommand
    /\ NoRequest
    /\ NoUserRows
    /\ NoSteps
    /\ NoSecondRun
    /\ inflight = [i \in Slots |-> NoCreate]

NextRace == ReceiveCreate \/ CheckCreate \/ SaveCreate

SpecRace == InitRace /\ [][NextRace]_vars

----------------------------------------------------------------------------
(* Properties. *)

\* The record the movie loop has just processed.
rec == movie_data[1]

\* A record the upsert of lines 59-77 takes: it has an id and a rating the
\* column holds.
Upserted(r) ==
    /\ r.id # Absent
    /\ MovieUpdateOrCreate({}, r.id[1], Defaults(r, Absent)).exc = ""

LocalGenreIds == {g.tmdb_id : g \in Genre}

LastLine == stdout.last[Len(stdout.last)]

Counted == LastLine \in {"Created movie", "Updated movie"}

\* C1: after a record whose genre_ids name only local genres is processed,
\* the movie's links are exactly the ids of genre_ids, whatever the list holds
\* and whatever links the movie had before.
C1_LinksEqualGenreIds ==
    (/\ movie_data # Absent
     /\ Upserted(rec)
     /\ rec.genre_ids # Absent
     /\ Range(rec.genre_ids[1]) \subseteq LocalGenreIds)
        => LinkedGenres(MovieGenre, rec.id[1]) = Range(rec.genre_ids[1])

\* The length of the genre list a successful run went through.
GenreListLen(data) == Len(Get(data[1].genres, <<>>))

\* C2: a sync_genres run that fetches the same genre data as the run before
\* it creates no Genre row, reports every genre as updated and leaves the
\* Genre rows (their number and their names) as they were.
C2_GenreSyncIdempotent ==
    [][(genres_repeat' /\ ~NoGenresData(genres_data'))
          => /\ genres_counts'[1] = 0
             /\ Genre' = Genre
             /\ genres_stdout' = "Successfully synced genres"
                   => genres_counts'[2] = GenreListLen(genres_data')]_vars

\* A run over two genres that found both of them in the table, as the first
\* run over this list left them.
C2_Witness ==
    /\ genres_stdout = "Successfully synced genres"
    /\ genres_counts = <<0, 2>>
    /\ genres_repeat
    /\ ~NoGenresData(genres_data)
    /\ LET l == Get(genres_data[1].genres, <<>>)
       IN  /\ Len(l) = 2
           /\ l[1].id # l[2].id
           /\ Genre = {GenreRow(l[i].id[1], l[i].name[1]) : i \in 1..2}

\* A string that is a date written YYYY-MM-DD, and the date it writes.
IsoDate(s) ==
    /\ Len(s) = 10
    /\ s[5] = "-" /\ s[8] = "-"
    /\ AllDigits(SubSeq(s, 1, 4)) /\ AllDigits(SubSeq(s, 6, 7))
    /\ AllDigits(SubSeq(s, 9, 10))
    /\ DigitsVal(SubSeq(s, 1, 4)) >= 1
    /\ DigitsVal(SubSeq(s, 6, 7)) \in 1..12
    /\ DigitsVal(SubSeq(s, 9, 10)) \in
          1..DaysIn(DigitsVal(SubSeq(s, 1, 4)), DigitsVal(SubSeq(s, 6, 7)))

IsoValue(s) ==
    <<DigitsVal(SubSeq(s, 1, 4)), DigitsVal(SubSeq(s, 6, 7)),
      DigitsVal(SubSeq(s, 9, 10))>>

IsoDates == {s \in DateStrings : IsoDate(s)}

\* The release date the row of the processed record holds.
StoredDate == RowOf(Movie, rec.id[1]).release_date

\* C7 as stated: a record whose release_date is missing, empty or not a
\* YYYY-MM-DD date raises no date error, is upserted and stores no date; a
\* YYYY-MM-DD date is stored as that date.
C7_NonIsoDateStoredNull ==
    (movie_data # Absent /\ Upserted(rec))
        => /\ LastLine # "ValueError"
           /\ HasRow(Movie, rec.id[1])
           /\ StoredDate =
                 IF rec.release_date = Absent \/ rec.release_date[1] \notin IsoDates
                 THEN Absent
                 ELSE Some(IsoValue(rec.release_date[1]))

\* C7 as amended: a record whose release_date is missing, empty or refused by
\* strptime("%Y-%m-%d") raises no date error, is upserted and stores no date;
\* a string strptime accepts is stored as the date strptime reads, which for
\* a YYYY-MM-DD date is that date.
C7_RefusedDateStoredNull ==
    (movie_data # Absent /\ Upserted(rec))
        => /\ LastLine # "ValueError"
           /\ HasRow(Movie, rec.id[1])
           /\ (\/ rec.release_date = Absent
               \/ rec.release_date[1] = EmptyStr
               \/ ParseDate(rec.release_date[1]) = Absent) => StoredDate = Absent
           /\ (rec.release_date # Absent /\ rec.release_date[1] \in IsoDates)
                 => StoredDate = Some(IsoValue(rec.release_date[1]))
           /\ (rec.release_date # Absent /\ rec.release_date[1] # EmptyStr
                  /\ ParseDate(rec.release_date[1]) # Absent)
                 => StoredDate = ParseDate(rec.release_date[1])

\* A record with a date strptime refuses was created with no date.
C7_Witness ==
    /\ movie_data # Absent
    /\ rec.id # Absent
    /\ rec.release_date = Some(NotADate)
    /\ LastLine = "Created movie"
    /\ StoredDate = Absent

\* What holds of the page loop in every state: the pages asked for so far
\* are 1, 2, ..., page, each once; no page is left with unread records; a run
\* that started ends only after page N.
PagesInOrder ==
    /\ fetched = [i \in 1..page |-> i]
    /\ page <= pages
    /\ pc \in {"pages", "done"} => movies = 0
    /\ pc = "done" => Len(fetched) = pages

C9_RecordErrorsCaught ==
    /\ pc = "done" => /\ stdout.final = "Successfully synced movies"
                      /\ page = pages
                      /\ movies = 0
    /\ pc = "pages" => movies = 0
    /\ created_count + updated_count + stdout.errors <= page * MaxPerPage

\* A run ended with its success report after a record failed and a later
\* record was counted.
C9_Witness ==
    /\ pc = "done"
    /\ stdout.final = "Successfully synced movies"
    /\ stdout.errors > 0
    /\ movie_data # Absent
    /\ Counted

\* C10: after a record whose genre_ids name an id with no local Genre row
\* is processed, the movie's links are exactly the ids of genre_ids that are
\* local, the Movie row exists and the record was counted.
C10_MissingGenreSkipped ==
    (/\ movie_data # Absent
     /\ Upserted(rec)
     /\ rec.genre_ids # Absent
     /\ Range(rec.genre_ids[1]) \ LocalGenreIds # {})
        => /\ LinkedGenres(MovieGenre, rec.id[1])
                 = Range(rec.genre_ids[1]) \cap LocalGenreIds
           /\ HasRow(Movie, rec.id[1])
           /\ Counted

\* The proxy list endpoints, by their URL names.
ListViews ==
    {"tmdb_popular", "tmdb_top_rated", "tmdb_now_playing", "tmdb_upcoming",
     "tmdb_search", "similar_movies", "movie_recommendations",
     "trending_movies", "movies_by_genre", "discover_movies"}

\* A request to one of views has been served.
Served(views) == request # Absent /\ request[1].view \in views

\* C3: a list endpoint asked for page=0 or page=abc, with credentials
\* configured, answers 400 whatever the vendor does.
C3_BadPageIs400 ==
    (/\ Served(ListViews)
     /\ Configured
     /\ request[1].GET["page"] \in {Some(<<"0">>), Some(<<"a", "b", "c">>)})
        => response[1].status = 400

\* C4: a list endpoint whose remote call returned no data answers 503.
C4_NoDataIs503 ==
    (/\ Served(ListViews)
     /\ remote # <<>>
     /\ remote[1].result = Absent)
        => response[1].status = 503

\* C5 as stated: the detail endpoint answers 404 when its remote call
\* returned no data, and 200 with the serialized item when it returned data.
C5_DetailNotFoundOrItem ==
    (Served({"tmdb_movie_detail"}) /\ remote # <<>>)
        => IF remote[1].result = Absent
           THEN response[1].status = 404
           ELSE response[1].status = 200 /\ response[1].item # Absent

\* C5 as amended: the detail endpoint makes one remote call; it answers 404,
\* not 503, when the call returned no data or an empty body; 200 with the
\* item's id, title and poster path when the body is a dict carrying id and
\* title; and 500 for any other body.
C5_DetailByBody ==
    (Served({"tmdb_movie_detail"}) /\ remote # <<>>)
        => LET data == remote[1].result
               empty == data = Absent \/ data[1] \in {EmptyDict, JsonList(0)}
               movie == /\ data # Absent
                        /\ data[1].json = "dict"
                        /\ data[1].id # Absent
                        /\ data[1].title # Absent
           IN  /\ Len(remote) = 1
               /\ empty => response[1].status = 404
               /\ movie => /\ response[1].status = 200
                           /\ response[1].item # Absent
                           /\ response[1].item[1].id = data[1].id[1]
                           /\ response[1].item[1].title = data[1].title[1]
                           /\ response[1].item[1].poster_path = data[1].poster_path
               /\ (~empty /\ ~movie) => response[1].status = 500

\* The detail endpoint answered 404 to a remote call that returned nothing.
C5_Witness ==
    /\ Served({"tmdb_movie_detail"})
    /\ remote # <<>>
    /\ remote[1].result = Absent
    /\ response[1].status = 404

\* C6: a by-genre request that reaches the vendor makes one discovery call
\* with with_genres the ids joined by commas, the requested sort_by and
\* page, and vote_count.gte = 50.
C6_ByGenreDiscoveryCall ==
    (Served({"movies_by_genre"}) /\ remote # <<>>)
        => LET call == remote[1]
               tokens == Split(Strip(request[1].GET["genres"][1]), ",")
               ids == [i \in DOMAIN tokens |-> IntToStr(ParseInt(tokens[i])[1])]
           IN  /\ Len(remote) = 1
               /\ call.endpoint = Endpoint("discover/movie", Absent, "")
               /\ call.params["with_genres"] = Some(Join(ids, ","))
               /\ call.params["sort_by"]
                     = Some(Get(request[1].GET["sort_by"], "popularity.desc"))
               /\ call.params["page"] = IntParam(request[1], "page", 1)
               /\ call.params["vote_count.gte"] = Some(50)


\* A field's value upstream, default when the vendor gives none.
Upstream(v, default) == IF v \in {Absent, JsonNull} THEN default ELSE v[1]

\* The Movie row's scalar fields equal those of record r, a decimal to the
\* last digit the vendor gives.
FieldsEqual(row, r) ==
    /\ row.title = Upstream(r.title, <<>>)
    /\ row.original_title = Upstream(r.original_title, <<>>)
    /\ row.overview = Upstream(r.overview, <<>>)
    /\ row.release_date = ReleaseDate(r).value
    /\ IF r.vote_average \in {Absent, JsonNull} THEN row.vote_average = Absent
       ELSE /\ row.vote_average # Absent
            /\ row.vote_average[1] * 100 = r.vote_average[1]
    /\ row.vote_count = Upstream(r.vote_count, 0)
    /\ IF r.popularity \in {Absent, JsonNull} THEN row.popularity = Absent
       ELSE /\ row.popularity # Absent
            /\ row.popularity[1] * 10 = r.popularity[1]
    /\ row.poster_path = Upstream(r.poster_path, <<>>)
    /\ row.backdrop_path = Upstream(r.backdrop_path, <<>>)
    /\ row.adult = Upstream(r.adult, FALSE)
    /\ row.video = Upstream(r.video, FALSE)
    /\ row.original_language = Upstream(r.original_language, <<>>)

\* C11: once a record with an id is processed, a Movie row keyed by that id
\* exists and each synced scalar field equals the record's value, text stored
\* as empty, flags as false and vote count as 0 when the vendor gives no
\* value, whether the row was created or was there before.
C11_SyncedFieldsEqualRecord ==
    (movie_data # Absent /\ rec.id # Absent)
        => /\ HasRow(Movie, rec.id[1])
           /\ FieldsEqual(RowOf(Movie, rec.id[1]), rec)

\* The upsert of the record about to be read overwrites a row that is there.
Overwrites(r) == Upserted(r) /\ HasRow(Movie, r.id[1])

\* C12: the created and updated counts of the closing report are the number
\* of Movie rows the run inserted and the number of upserts that overwrote a
\* row: every record read adds to created_count what it adds to the Movie
\* table, and one to updated_count exactly when its upsert overwrote a row.
C12_CountsAreInsertsAndOverwrites ==
    [][(movies' = movies - 1)
          => /\ created_count' - created_count
                   = Cardinality(Movie') - Cardinality(Movie)
             /\ updated_count' - updated_count
                   = (IF Overwrites(movie_data'[1]) THEN 1 ELSE 0)]_vars

\* The remote calls of the request served.
Calls == {remote[i] : i \in DOMAIN remote}

\* C13: no failure leaves _make_request: a transport error, a status that is
\* not 2xx and a body that is not JSON each give None, and a body is handed
\* back only when the vendor answered 2xx with JSON, and is that body.
C13_MakeRequestNeverRaises ==
    \A call \in Calls :
        /\ call.exc = ""
        /\ call.outcome.kind \in {"transport", "status", "undecodable"}
              => call.result = Absent
        /\ call.result # Absent
              => call.outcome.kind = "json" /\ call.result = call.outcome.body

C13_Witness ==
    /\ \E call \in Calls : call.outcome.kind = "undecodable" /\ call.result = Absent
    /\ response # Absent
    /\ response[1].status = 503

\* C14: every request of the client carries exactly one credential: with a
\* bearer token configured the Authorization header "Bearer <token>" and no
\* api_key parameter, an API key configured or not; with an API key alone the
\* api_key parameter and no Authorization header.
C14_OneCredentialForm ==
    \A call \in Calls :
        /\ IsSet(env.bearer_token)
              => /\ call.headers.Authorization
                       = Some(<<"Bearer ", env.bearer_token[1]>>)
                 /\ call.params["api_key"] = Absent
        /\ (~IsSet(env.bearer_token) /\ IsSet(env.api_key))
              => /\ call.params["api_key"] = env.api_key
                 /\ call.headers.Authorization = Absent

C14_Witness ==
    /\ IsSet(env.bearer_token)
    /\ IsSet(env.api_key)
    /\ \E call \in Calls : call.headers.Authorization # Absent

\* The request served is a search whose q is missing or blank.
BlankSearch ==
    /\ Served({"tmdb_search"})
    /\ Strip(Get(request[1].GET["q"], <<>>)) = <<>>

IsConfigError == response[1] = ConfigError

\* Neither variable holds a credential.
NoCredential == ~IsSet(env.bearer_token) /\ ~IsSet(env.api_key)

\* C15 as stated: with neither credential configured every proxy request is
\* answered 500 with no remote call; with one configured the client is
\* constructed.
C15_UnconfiguredIs500 ==
    request # Absent
        => /\ NoCredential => (response[1].status = 500 /\ remote = <<>>)
           /\ ~NoCredential => ~IsConfigError

\* C15 as amended: with neither credential configured every proxy request is
\* answered 500 with no remote call, except a search whose q is missing or
\* blank, which is answered 400 with no remote call; with one configured the
\* client is constructed.
C15_UnconfiguredIs500UnlessBlankSearch ==
    request # Absent
        => /\ (NoCredential /\ ~BlankSearch) => (IsConfigError /\ remote = <<>>)
           /\ (NoCredential /\ BlankSearch)
                 => (response[1].status = 400 /\ remote = <<>>)
           /\ ~NoCredential => ~IsConfigError

C15_Witness ==
    /\ request # Absent
    /\ env.bearer_token = Some("")
    /\ env.api_key = Absent
    /\ Served({"tmdb_search"})
    /\ ~BlankSearch
    /\ IsConfigError

\* The result the remote call of the request served handed back.
Handed == remote[1].result

\* The uniform reply to the vendor body d: its items serialized, and page,
\* total_pages and total_results with 1, 1 and 0 for a key that is missing.
IsUniformReply(d) ==
    /\ response[1].status = 200
    /\ response[1].results # Absent
    /\ Len(response[1].results[1]) = Len(Get(d.results, <<>>))
    /\ response[1].page = Some(Get(d.page, 1))
    /\ response[1].total_pages = Some(Get(d.total_pages, 1))
    /\ response[1].total_results = Some(Get(d.total_results, 0))
    /\ response[1].query
          = (IF Served({"tmdb_search"})
             THEN Some(Strip(request[1].GET["q"][1])) ELSE Absent)

\* C16 as stated: a list endpoint whose remote call handed back anything but
\* None answers 200 with results, page, total_pages and total_results (and
\* query on search), the missing keys filled with [], 1, 1 and 0.
C16_DataIsUniformReply ==
    (Served(ListViews) /\ remote # <<>> /\ Handed # Absent)
        => Handed[1].json = "dict" /\ IsUniformReply(Handed[1])

\* The body is a dict with a key, and each item of its results has id and
\* title.
WellFormed(d) ==
    /\ d.json = "dict"
    /\ d # EmptyDict
    /\ \A i \in DOMAIN Get(d.results, <<>>) : Serializable(Get(d.results, <<>>)[i])

\* C16 as amended: a list endpoint whose remote call handed back a dict that
\* is not empty and whose result items each carry id and title answers 200
\* with results, page, total_pages and total_results (and query on search),
\* the missing keys filled with [], 1, 1 and 0.
C16_WellFormedDataIsUniformReply ==
    (Served(ListViews) /\ remote # <<>> /\ Handed # Absent /\ WellFormed(Handed[1]))
        => IsUniformReply(Handed[1])

C16_Witness ==
    /\ Served({"tmdb_search"})
    /\ remote # <<>>
    /\ Handed = Some(OtherDict)
    /\ response[1].results = Some(<<>>)
    /\ response[1].total_pages = Some(1)

\* The query string of the request served, and whether it supplies key with
\* a value.
Asked == request[1].GET

Supplied(key) == Asked[key] # Absent /\ Asked[key][1] # <<>>

\* The parameters of the remote call, the credential aside.
Forwarded == [remote[1].params EXCEPT !["api_key"] = Absent]

\* C17: the discover endpoint forwards to the remote discovery call the
\* optional filters the caller supplied (with_genres, primary_release_year,
\* vote_average.gte) and none it omitted, and always vote_count.gte, sort_by
\* and page, 50, popularity.desc and 1 when the caller omits them.
C17_DiscoverForwardsSupplied ==
    (Served({"discover_movies"}) /\ remote # <<>>)
        => /\ remote[1].endpoint = Endpoint("discover/movie", Absent, "")
           /\ Forwarded =
                 [NoParams EXCEPT
                    !["with_genres"] =
                        IF Supplied("with_genres") THEN Asked["with_genres"]
                        ELSE Absent,
                    !["primary_release_year"] =
                        IF Supplied("primary_release_year")
                        THEN IntOf[Asked["primary_release_year"][1]] ELSE Absent,
                    !["vote_average.gte"] =
                        IF Supplied("vote_average_gte")
                        THEN FloatOf[Asked["vote_average_gte"][1]] ELSE Absent,
                    !["vote_count.gte"] =
                        IF Asked["vote_count_gte"] = Absent THEN Some(50)
                        ELSE IntOf[Asked["vote_count_gte"][1]],
                    !["sort_by"] =
                        IF Asked["sort_by"] = Absent THEN Some("popularity.desc")
                        ELSE Asked["sort_by"],
                    !["page"] =
                        IF Asked["page"] = Absent THEN Some(1)
                        ELSE IntOf[Asked["page"][1]]]
           /\ Forwarded["vote_count.gte"] # Absent
           /\ Forwarded["page"] # Absent

C17_Witness ==
    /\ Served({"discover_movies"})
    /\ remote # <<>>
    /\ Asked["with_genres"] = Some(<<"2", "8">>)
    /\ Asked["primary_release_year"] = Absent
    /\ Asked["vote_count_gte"] = Absent
    /\ Forwarded["with_genres"] = Some(<<"2", "8">>)
    /\ Forwarded["primary_release_year"] = Absent
    /\ Forwarded["vote_count.gte"] = Some(50)

\* The request served names a sort key outside the four the views take, or a
\* time window other than day and week.
BadSortKey ==
    /\ Served({"movies_by_genre", "discover_movies"})
    /\ Asked["sort_by"] # Absent
    /\ Asked["sort_by"][1] \notin {"popularity.desc", "vote_average.desc",
                                   "release_date.desc", "revenue.desc"}

BadTimeWindow ==
    /\ Served({"trending_movies"})
    /\ Asked["time_window"] # Absent
    /\ Asked["time_window"][1] \notin {"day", "week"}

C18_WitnessWindow ==
    /\ ~NoCredential
    /\ BadTimeWindow
    /\ response[1].status = 400

\* The request served is a by-genre request without genres, with an empty
\* genres, or with a token that is no integer ("28,,12", "28,abc").
BadGenres ==
    /\ Served({"movies_by_genre"})
    /\ Asked["genres"] \in {Absent, Some(<<>>),
                            Some(<<"2", "8", ",", ",", "1", "2">>),
                            Some(<<"2", "8", ",", "a", "b", "c">>)}

asked == user_request[1]

\* C20: the favorite check of user U for a local movie X answers
\* is_favorite = true exactly when a UserFavorite row (U, X) exists at that
\* point, whatever favorites were created and deleted before and whatever
\* rows other users have; the watchlist check does the same over
\* UserWatchlist.
C20_CheckReflectsRows ==
    /\ (user_request # Absent /\ asked.view = "check_favorite"
            /\ \E x \in Movie : x.id = asked.arg[1])
          => /\ user_response[1].status = 200
             /\ user_response[1].flag
                  = Some(\E f \in UserFavorite :
                            f.user = asked.user /\ f.movie = asked.arg[1])
    /\ (user_request # Absent /\ asked.view = "check_watchlist"
            /\ \E x \in Movie : x.id = asked.arg[1])
          => /\ user_response[1].status = 200
             /\ user_response[1].flag
                  = Some(\E w \in UserWatchlist :
                            w.user = asked.user /\ w.movie = asked.arg[1])

\* ann has created and deleted her favorite of movie 1, bob has his, and
\* ann's check answers false.
C20_Witness ==
    /\ user_request # Absent
    /\ asked.view = "check_favorite"
    /\ asked.user = "ann"
    /\ asked.arg = Some(1)
    /\ pk_seq.favorite = 2
    /\ UserFavorite = {[id |-> 2, user |-> "bob", movie |-> 1]}
    /\ user_response[1].flag = Some(FALSE)

\* The users request the step serves and the reply it gets.
served == user_request'[1]
reply == user_response'[1]

\* The table a delete or list request of the step is about.
TableOf(view) ==
    IF view \in {"favorites", "favorite_detail"} THEN UserFavorite
    ELSE UserWatchlist

\* C21: a favorite or watchlist row is listed and deleted only by its owner:
\* a row leaves a table only in a step that serves a request of its user, a
\* delete naming a row of another user is answered 404 and changes no row of
\* either table, and a list reply holds only rows of the requesting user.
C21_OwnerOnly ==
    [][/\ \A x \in (UserFavorite \ UserFavorite') \cup (UserWatchlist \ UserWatchlist') :
             x.user = served.user
       /\ (/\ served.view \in {"favorite_detail", "watchlist_detail"}
           /\ \E x \in TableOf(served.view) :
                 x.id = served.arg[1] /\ x.user # served.user)
            => /\ reply.status = 404
               /\ UserFavorite' = UserFavorite
               /\ UserWatchlist' = UserWatchlist
       /\ (served.view \in {"favorites", "watchlist"} /\ served.method = "GET")
            => /\ reply.rows # Absent
               /\ \A x \in reply.rows[1] : x.user = served.user
               /\ \A x \in TableOf(served.view) :
                     x.user = served.user => x \in reply.rows[1]]_vars

\* ann has asked to delete bob's favorite, was answered 404, and the row is
\* there.
C21_Witness ==
    /\ user_request # Absent
    /\ asked.view = "favorite_detail"
    /\ asked.user = "ann"
    /\ asked.arg = Some(1)
    /\ [id |-> 1, user |-> "bob", movie |-> 1] \in UserFavorite
    /\ user_response[1].status = 404

\* C22: no step of sync_genres or of sync_popular_movies, in a run that
\* succeeds or in one that fails, adds, changes or removes a UserFavorite or
\* UserWatchlist row.
C22_SyncLeavesUserRows ==
    [][UserFavorite' = UserFavorite /\ UserWatchlist' = UserWatchlist]_vars

\* Both commands have run, the movie sync has overwritten the movie of the
\* favorite and failed on a record, and the rows are there.
C22_Witness ==
    /\ pc = "done"
    /\ updated_count > 0
    /\ stdout.errors > 0
    /\ genres_stdout = "Successfully synced genres"
    /\ UserFavorite = {[id |-> 1, user |-> "ann", movie |-> 1]}
    /\ UserWatchlist = {[id |-> 1, user |-> "bob", movie |-> 1]}

\* C23: after any sequence of runs of the two commands, whatever the pages
\* and genre lists repeat, no two Movie rows have the same remote id, no two
\* Genre rows have the same remote id, and no (movie, genre) pair is linked
\* twice.
C23_RemoteIdsAndLinksUnique ==
    /\ \A x, y \in Movie : x.tmdb_id = y.tmdb_id => x = y
    /\ \A x, y \in Genre : x.tmdb_id = y.tmdb_id => x = y
    /\ \A p \in BagToSet(MovieGenre) : CopiesIn(p, MovieGenre) = 1

\* The record that names genre 1 twice has just been processed for a movie
\* that was there, with genre 1 in the table under the name a repeated
\* genre id gave it: the movie is linked to the genre once.
C23_Witness ==
    /\ movie_data = Some([PlainRecord(1) EXCEPT !.genre_ids = Some(<<1, 1>>)])
    /\ stdout.last = <<"IntegrityError">>
    /\ GenreRow(1, <<"B">>) \in Genre
    /\ Cardinality(Movie) = 2
    /\ CopiesIn(<<1, 1>>, MovieGenre) = 1

\* C24: after any sequence of sync_popular_movies runs, every Movie row with
\* a vote_average has one between 0 and 10 (0 and 100 tenths), whatever the
\* pages carried.
C24_RatingWithinZeroAndTen ==
    \A m \in Movie :
        m.vote_average # Absent =>
            0 <= m.vote_average[1] /\ m.vote_average[1] <= 100

\* C25: a run of sync_genres whose fetch of the genre list hands back no
\* data (None, or an empty body) reports the failure and leaves the Genre
\* table exactly as it was.
C25_NoGenreDataAborts ==
    [][(/\ Configured
        /\ \/ genres_data' = Absent
           \/ genres_data' = Some([genres |-> Absent, other |-> FALSE]))
       => /\ Genre' = Genre
          /\ genres_stdout' = "Failed to fetch genres from TMDb API"]_vars

\* A run over a table of two genres was handed an empty body and reported
\* the failure.
C25_Witness ==
    /\ Cardinality(Genre) = 2
    /\ genres_data = Some([genres |-> Absent, other |-> FALSE])
    /\ genres_stdout = "Failed to fetch genres from TMDb API"

\* C27: a create request on favorites or on the watchlist is answered 400
\* and changes no row when the user has the movie in that table already or
\* no Movie row has the id; otherwise it adds exactly one row, of the user
\* and the movie, to that table; and the table never holds two rows of one
\* user and movie.
C27_CreateAddsOneRowOrRejects ==
    [][(/\ served.view \in {"favorites", "watchlist"}
        /\ served.method = "POST"
        /\ served.arg # Absent)
       => LET before == TableOf(served.view)
              after == IF served.view = "favorites" THEN UserFavorite'
                       ELSE UserWatchlist'
              other == IF served.view = "favorites"
                       THEN UserWatchlist' = UserWatchlist
                       ELSE UserFavorite' = UserFavorite
              has == \E x \in before :
                        x.user = served.user /\ x.movie = served.arg[1]
              unknown == \A m \in Movie : m.id # served.arg[1]
          IN  /\ other
              /\ IF has \/ unknown
                 THEN reply.status = 400 /\ after = before
                 ELSE /\ reply.status = 201
                      /\ before \subseteq after
                      /\ Cardinality(after \ before) = 1
                      /\ \A x \in after \ before :
                            x.user = served.user /\ x.movie = served.arg[1]
              /\ \A x, y \in after :
                    (x.user = y.user /\ x.movie = y.movie) => x = y]_vars

\* bob has asked for a movie that is in his watchlist already to be added to
\* it, was answered 400, and holds it once.
C27_Witness ==
    /\ user_request # Absent
    /\ asked.view = "watchlist"
    /\ asked.method = "POST"
    /\ asked.user = "bob"
    /\ asked.arg = Some(2)
    /\ user_response[1].status = 400
    /\ user_response[1].detail = "Movie is already in watchlist."
    /\ Cardinality({x \in UserWatchlist : x.user = "bob" /\ x.movie = 2}) = 1

\* C26: the upsert of the movie and the replacement of its genre links are
\* separate steps with no transaction around them: a run that stops between
\* the two leaves the Movie row with the record's values and the links as the
\* iteration found them, and no later step of the body (an exception in the
\* link loop and a stop included) takes the upserted row back.
C26_UpsertStandsAlone ==
    [][/\ (pc' = "stopped" /\ step' = "genres")
            => LET r == movie_data'[1]
               IN  /\ \E x \in Movie' :
                         x = MovieRow(x.id, r.id[1],
                                      Defaults(r, ReleaseDate(r).value))
                   /\ MovieGenre' = at_start'[1].MovieGenre
       /\ step # "record" => Movie' = Movie]_vars

\* The run has stopped after it gave movie 1 its new title and before it
\* replaced the link to genre 2 by the record's link to genre 1.
C26_Witness ==
    /\ pc = "stopped"
    /\ step = "genres"
    /\ movie_data[1].genre_ids = Some(<<1>>)
    /\ \E x \in Movie : x.tmdb_id = 1 /\ x.title = <<"U">>
    /\ MovieGenre = SetToBag({<<1, 2>>})

\* The Genre rows the links give movie m.
GenresOf(links, m) == {g \in Genre : CopiesIn(<<m, g.tmdb_id>>, links) > 0}

\* C29: a read of a local movie served while the run is inside the loop body
\* of that movie returns as its genres either the set the movie had when
\* the iteration began or the set the iteration leaves it with, never an
\* empty or a partly rebuilt one.
C29_ReadSeesWholeGenreSet ==
    [][(/\ seen' # seen
        /\ seen'[1].status = 200
        /\ pc = "movies"
        /\ step # "record"
        /\ seen'[1].tmdb_id = movie_data[1].id[1])
       => LET m == movie_data[1].id[1]
              left == HandleGenres(at_start[1].MovieGenre, Genre, m,
                                   movie_data[1]).links
          IN  seen'[1].genres \in {GenresOf(at_start[1].MovieGenre, m),
                                   GenresOf(left, m)}]_vars

\* C28: of two create requests for one user and one movie of one table,
\* served at the same time in any interleaving, one is answered 201 and the
\* other 400 with the "already in" error, and the table holds one row of the
\* pair; neither ends in an error that nothing handles.
C28_OneCreatedOneRejected ==
    LET a == inflight[1]
        b == inflight[2]
    IN  (/\ a.at = "done"
         /\ b.at = "done"
         /\ a.view = b.view /\ a.user = b.user /\ a.movie_id = b.movie_id
         /\ \E m \in Movie : m.id = a.movie_id)
        => /\ Cardinality({x \in CreateTable(a.view) :
                              x.user = a.user /\ x.movie = a.movie_id}) = 1
           /\ {a.status, b.status} = {201, 400}
           /\ \A c \in {a, b} :
                 c.status = 400 => c.detail = AlreadyIn(c.view)

\* C30: a second run of sync_popular_movies over the page of the first,
\* with the Genre table as it was, ends with the Movie rows and the
\* MovieGenre links the first run ended with, and counts no movie as
\* created.
C30_SecondRunChangesNothing ==
    (run_no = 2 /\ pc = "done")
        => /\ Movie = after_first[1].Movie
           /\ MovieGenre = after_first[1].MovieGenre
           /\ created_count = 0

\* The second run has ended; it overwrote both movies, one of them linked to
\* a genre, and failed on a record as the first run did.
C30_Witness ==
    /\ run_no = 2
    /\ pc = "done"
    /\ updated_count > 1
    /\ stdout.errors > 0
    /\ Cardinality(Movie) = 2
    /\ MovieGenre # EmptyBag

====
